---- MODULE Spec2Model ----
(***************************************************************************)
(* Selection registry and dual-backend persistence engine of               *)
(* public/js/fileStorageModule.mjs: the IndexedDB connector, the registry, *)
(* the native handle backend, the transient session backend and the        *)
(* dispatcher (public API).                                                *)
(*                                                                         *)
(* One IndexedDB transaction is one atomic step.  An asynchronous call     *)
(* that issues several transactions (persistHandles, native remove) is a   *)
(* task with a program counter; calls that issue one read transaction and  *)
(* then run synchronously (the lookups) are one step.                      *)
(***************************************************************************)
EXTENDS Integers, Sequences, FiniteSets, TLC

\* ------------------------------------------------------------------ bounds
\* Largest value the wall clock (Date.now) reaches.
MaxClock == 2
\* Largest version a store left behind by an earlier schema may have.
MaxLegacyVersion == 2
\* Most calls of an injected openDatabase one component makes.
MaxOpenCalls == 4
\* Most arrays and objects the transient backend and its caller allocate.
MaxRefs == 9

\* ------------------------------------------------------- program constants
DEFAULT_STORE_NAME == "registry"
DEFAULT_NATIVE_HANDLE_STORE_NAME == "nativeHandles"
DEFAULT_DB_VERSION == 1
DEFAULT_STORAGE_TYPE == "uninitialized"
NATIVE_HANDLE_STORAGE_TYPE == "native-handle"
TRANSIENT_STORAGE_TYPE == "transient-session"
MAX_DB_MIGRATION_ATTEMPTS == 3
STORE_DEFINITIONS == {DEFAULT_STORE_NAME, DEFAULT_NATIVE_HANDLE_STORE_NAME}

\* JavaScript's undefined, for a string-valued or a number-valued place.
Undefined == "undefined"
NoTime == -1

\* ------------------------------------------------------------ the universe
\* Opaque keys.  A generated key (crypto.randomUUID) is one not in use.
Keys == {"k1", "k2"}
Tasks == {1, 2}

\* The objects a caller can put in a selection, by the fields the shape
\* checks inspect:
\*   f1, f2  FileSystemFileHandle       {kind:'file', name}
\*   d1, d2  FileSystemDirectoryHandle  {kind:'directory', name}
\*   x1      File                       {name, size}
\*   x2      File from a directory input {name, size, webkitRelativePath:'a/b/x2'}
\*   e1      legacy directory entry     {isDirectory:true, fullPath:'/e1'}
\*   e2      entry with a kind, no name {kind:'directory', path:'e2'}
\*   j1      an object with none of the inspected fields
Items == {"f1", "f2", "d1", "d2", "x1", "x2", "e1", "e2", "j1"}

ItemKind(i) ==
    CASE i \in {"f1", "f2"} -> "file"
      [] i \in {"d1", "d2", "e2"} -> "directory"
      [] OTHER -> Undefined

ItemHasName(i) == i \in {"f1", "f2", "d1", "d2", "x1", "x2"}
ItemHasSize(i) == i \in {"x1", "x2"}
ItemIsDirectoryFlag(i) == i = "e1"
\* webkitRelativePath || fullPath || path, as [abs, segs]: abs is a leading
\* '/', segs the non-empty segments between slashes.
ItemRawPath(i) ==
    CASE i = "x2" -> [abs |-> FALSE, segs |-> <<"a", "b", "x2">>]
      [] i = "e1" -> [abs |-> TRUE, segs |-> <<"e1">>]
      [] i = "e2" -> [abs |-> FALSE, segs |-> <<"e2">>]
      [] OTHER -> [abs |-> FALSE, segs |-> <<>>]

Directories == {"d1", "d2"}

\* ------------------------------------------------------------ shape checks
isFileSystemHandleKindOnly(candidate) ==
    ItemKind(candidate) # Undefined

isFileSystemHandle(candidate) ==
    /\ candidate \in Items
    /\ ItemKind(candidate) # Undefined
    /\ ItemHasName(candidate)

isFileLike(candidate) ==
    /\ candidate \in Items
    /\ ItemHasName(candidate)
    /\ ItemHasSize(candidate)

isEntryLike(candidate) ==
    /\ candidate \in Items
    /\ \/ ItemKind(candidate) # Undefined
       \/ ItemRawPath(candidate).segs # <<>>
       \/ ItemIsDirectoryFlag(candidate)

isTransientEntry(candidate) == isFileLike(candidate) \/ isEntryLike(candidate)

isPureNativeSelectionAny(items) ==
    Len(items) > 0 /\ \E n \in 1..Len(items) : isFileSystemHandle(items[n])

isPureNativeSelection(items) ==
    Len(items) > 0 /\ \A n \in 1..Len(items) : isFileSystemHandle(items[n])

\* ------------------------------------------------------- count derivation
\* tr maps a directory handle to the entries its iterator yields now;
\* IteratorThrows in that sequence is the point where the iterator throws.
\* A summary with failed set stands for the exception on its way up.
IteratorThrows == "!"
ZeroSummary(seen) == [files |-> 0, directories |-> 0, seen |-> seen, failed |-> FALSE]

RECURSIVE WalkChildren(_, _, _, _)
\* The for-await loop of summarizeDirectoryChildren from child n on, acc
\* holding the running summary and the traversal's shared seen set.
WalkChildren(children, n, acc, tr) ==
    IF n > Len(children) THEN acc
    ELSE LET entry == children[n] IN
         IF entry = IteratorThrows THEN [acc EXCEPT !.failed = TRUE]
         ELSE IF ~isFileSystemHandle(entry) THEN WalkChildren(children, n + 1, acc, tr)
         ELSE IF ItemKind(entry) = "file"
         THEN WalkChildren(children, n + 1, [acc EXCEPT !.files = @ + 1], tr)
         ELSE IF ItemKind(entry) = "directory"
         THEN IF entry \in acc.seen
              THEN WalkChildren(children, n + 1,
                                [acc EXCEPT !.directories = @ + 1], tr)
              ELSE LET nested == WalkChildren(tr[entry], 1,
                                     ZeroSummary(acc.seen \cup {entry}), tr)
                   IN IF nested.failed THEN nested
                      ELSE WalkChildren(children, n + 1,
                          [files |-> acc.files + nested.files,
                           directories |-> acc.directories + 1 + nested.directories,
                           seen |-> nested.seen, failed |-> FALSE], tr)
         ELSE WalkChildren(children, n + 1, acc, tr)

summarizeDirectoryChildren(directoryHandle, seen, tr) ==
    WalkChildren(tr[directoryHandle], 1, ZeroSummary(seen), tr)

RECURSIVE WalkHandles(_, _, _, _)
\* The for loop of summarizeHandles from handle n on.
WalkHandles(handles, n, acc, tr) ==
    IF n > Len(handles) THEN acc
    ELSE LET handle == handles[n] IN
         IF ~isFileSystemHandle(handle) THEN WalkHandles(handles, n + 1, acc, tr)
         ELSE LET counted == [acc EXCEPT !.handles = @ + 1] IN
         IF ItemKind(handle) = "file"
         THEN WalkHandles(handles, n + 1, [counted EXCEPT !.files = @ + 1], tr)
         ELSE IF ItemKind(handle) = "directory"
         THEN IF handle \in counted.seen
              THEN WalkHandles(handles, n + 1,
                               [counted EXCEPT !.directories = @ + 1], tr)
              ELSE LET nested == summarizeDirectoryChildren(
                                     handle, counted.seen \cup {handle}, tr)
                   IN IF nested.failed THEN [counted EXCEPT !.failed = TRUE]
                      ELSE WalkHandles(handles, n + 1,
                          [files |-> counted.files + nested.files,
                           directories |-> counted.directories + 1 + nested.directories,
                           handles |-> counted.handles,
                           seen |-> nested.seen, failed |-> FALSE], tr)
         ELSE WalkHandles(handles, n + 1, counted, tr)

Counts(s) == [files |-> s.files, directories |-> s.directories, handles |-> s.handles]

summarizeHandlesTopLevelOnly(handles, tr) ==
    [files |-> Cardinality({n \in 1..Len(handles) : ItemKind(handles[n]) = "file"}),
     directories |-> Cardinality({n \in 1..Len(handles) : ItemKind(handles[n]) = "directory"}),
     handles |-> Len(handles)]

\* The summary summarizeHandles resolves to when no iterator throws.
summarizeHandles(handles, tr) ==
    Counts(WalkHandles(handles, 1,
               [files |-> 0, directories |-> 0, handles |-> 0, seen |-> {},
                failed |-> FALSE], tr))

\* Whether summarizeHandles rejects: an iterator threw during the walk.
summarizeHandlesThrows(handles, tr) ==
    WalkHandles(handles, 1,
        [files |-> 0, directories |-> 0, handles |-> 0, seen |-> {},
         failed |-> FALSE], tr).failed

\* --------------------------------------------------- transient summaries
\* includes('/') on the raw path, then split, filter(Boolean), pop, and the
\* running prefixes; a directory path is the sequence of its segments.
deriveDirectorySegments(entry) ==
    LET raw == ItemRawPath(entry)
        parts == raw.segs
    IN IF ~(raw.abs \/ Len(parts) > 1) THEN {}
       ELSE IF parts = <<>> THEN {}
       ELSE IF Len(parts) = 1 THEN {<<"__root__">>}
       ELSE {SubSeq(parts, 1, n) : n \in 1..(Len(parts) - 1)}

isDirectoryLike(entry) == ItemKind(entry) = "directory" \/ ItemIsDirectoryFlag(entry)

isFileLikeEntry(entry) == ItemKind(entry) = "file" \/ isFileLike(entry)

summarizeTransientEntries(entries) ==
    LET idx == 1..Len(entries)
        dirLike == {n \in idx : isDirectoryLike(entries[n])}
        derivedDirectories ==
            UNION {deriveDirectorySegments(entries[n]) :
                     n \in {m \in idx \ dirLike : isFileLikeEntry(entries[m])}}
    IN [files |-> Cardinality(idx \ dirLike),
        directories |-> Cardinality(dirLike) + Cardinality(derivedDirectories),
        handles |-> Len(entries)]

\* ------------------------------------------------------------------- state
VARIABLES
    registryStore,          \* 'registry' partition: key -> record | NoRecord
    nativeStore,            \* 'nativeHandles' partition: key -> record | NoRecord
    sessions,               \* transient backend's sessions Map, in insertion order
    expiredSessions,        \* transient backend's expiredSessions Map: key -> tombstone
    unloadListenerAttached, \* transient backend's flag
    listenerCalls,          \* addEventListener('beforeunload') calls made so far
    tree,                   \* the file system: directory handle -> entries it yields
    clock,                  \* Date.now()
    mem,                    \* arrays and objects by identity: heap, held, owned
    walk,                   \* one count traversal, entry by entry
    tabs,                   \* the browser identity handshake of two tabs
    pc,                     \* per task: where its asynchronous call stands
    call,                   \* per task: the locals of the call in flight
    res,                    \* per task: what its last finished call returned or threw
    dbVersion,              \* IndexedDB: version of the database (0: does not exist)
    dbStores,               \* IndexedDB: its object stores
    foreign,                \* another context's connection that ignores versionchange
    dbPromise,              \* per component: state of its cached dbPromise
    opener,                 \* per component: locals of the running defaultOpenDatabase
    conn,                   \* per component: the connection its dbPromise resolved to
    openCalls,              \* per component: calls of openDatabase made so far
    connSeq,                \* connections opened so far (their identity)
    openedDb,               \* per component: the loop's db when it lacked the store
    upgradeQueue,           \* IndexedDB: blocked upgrade requests still waiting
    legacy                  \* the database as the page found it when it loaded

storeVars == <<registryStore, nativeStore>>
transientVars == <<sessions, expiredSessions, unloadListenerAttached, listenerCalls>>
envVars == <<tree, clock, mem, walk, tabs>>
taskVars == <<pc, call, res>>
connVars ==
    <<dbVersion, dbStores, foreign, dbPromise, opener, conn, openCalls, connSeq,
      openedDb, upgradeQueue, legacy>>
vars == <<storeVars, transientVars, envVars, taskVars, connVars>>

NoRecord == [absent |-> TRUE]
NoCall == [op |-> "none"]
NoResult == [op |-> "none"]

\* The identities of the arrays and objects in memory, and a slot not yet
\* allocated.
Refs == 1..MaxRefs
Free == [kind |-> "free"]

\* Two tabs of one browser, the second a duplicate of the first: both find
\* the same tabId in their sessionStorage; neither has called getTabIdentity.
TabNames == {"a", "b"}
ClonedTabId == "dupe-tab"
NoTabs ==
    [tab |-> [n \in TabNames |->
                 [status |-> "unstarted", sessionTabId |-> ClonedTabId,
                  browserId |-> "unset", currentTabId |-> "unset",
                  nonce |-> "unset", didRegenerateTabId |-> FALSE]],
     inbox |-> [n \in TabNames |-> <<>>],
     localBrowserId |-> "unset",
     overlapped |-> FALSE,
     dropped |-> FALSE]

\* No count traversal has been started.
NoWalk == [status |-> "idle"]

\* The two components of a page that each cache a connection.
Components == {"registry", "native"}
StoreNameOf(c) ==
    IF c = "registry" THEN DEFAULT_STORE_NAME ELSE DEFAULT_NATIVE_HANDLE_STORE_NAME

\* ------------------------------------------------------------ Map helpers
SessionKeys == {sessions[n].key : n \in 1..Len(sessions)}
SessionIndex(key) == CHOOSE n \in 1..Len(sessions) : sessions[n].key = key
SessionOf(key) == sessions[SessionIndex(key)]

RECURSIVE SeqWithout(_, _)
SeqWithout(s, key) ==
    IF s = <<>> THEN <<>>
    ELSE IF Head(s).key = key THEN SeqWithout(Tail(s), key)
    ELSE <<Head(s)>> \o SeqWithout(Tail(s), key)

\* Map.prototype.set: a present key keeps its place, a new key goes last.
MapSet(s, session) ==
    IF \E n \in 1..Len(s) : s[n].key = session.key
    THEN [n \in 1..Len(s) |-> IF s[n].key = session.key THEN session ELSE s[n]]
    ELSE Append(s, session)

\* Keys in use nowhere: what a collision-resistant key factory can return.
InFlightKeys == {call[t].key : t \in {u \in Tasks : call[u].op # "none"}}
FreshKeys ==
    {k \in Keys : /\ registryStore[k] = NoRecord
                  /\ nativeStore[k] = NoRecord
                  /\ k \notin SessionKeys
                  /\ expiredSessions[k] = NoRecord
                  /\ k \notin InFlightKeys}

now == clock

\* metadata.key ?? keyFactory(): the caller's key, or a generated one when
\* the call gets as far as generating it.
KeyChoice(metadata, generated, generates) ==
    IF metadata.key # Undefined THEN generated = metadata.key
    ELSE generates => generated \in FreshKeys

\* ------------------------------------------------ transient session backend
\* What a call returns, or that it threw, lands in res[t]; every result names
\* the operation and the key it was called with.
Threw(op, key, error) == [op |-> op, key |-> key, threw |-> TRUE, error |-> error]

Tombstone(key, reason) ==
    [status |-> "expired", reason |-> reason, key |-> key, expiredAt |-> now]

ensureBeforeUnloadListenerAlways ==
    /\ unloadListenerAttached' = TRUE
    /\ listenerCalls' = listenerCalls + 1

ensureBeforeUnloadListener ==
    /\ unloadListenerAttached' = TRUE
    /\ listenerCalls' = IF unloadListenerAttached THEN listenerCalls
                        ELSE listenerCalls + 1

expireAllKeepSessions(reason) ==
    /\ expiredSessions' =
           [k \in Keys |-> IF k \in SessionKeys THEN Tombstone(k, reason)
                           ELSE expiredSessions[k]]
    /\ sessions' = sessions

\* expireAll: every active session becomes a tombstone, the map is cleared.
expireAll(reason) ==
    /\ expiredSessions' =
           [k \in Keys |-> IF k \in SessionKeys THEN Tombstone(k, reason)
                           ELSE expiredSessions[k]]
    /\ sessions' = <<>>

persistEntriesStoreKeepsTombstone(key, entries, metadata) ==
    LET createdAt == IF metadata.createdAt # NoTime THEN metadata.createdAt ELSE now
        session == [key |-> key,
                    entries |-> entries,
                    counts |-> summarizeTransientEntries(entries),
                    createdAt |-> createdAt,
                    updatedAt |-> IF metadata.updatedAt # NoTime
                                  THEN metadata.updatedAt ELSE createdAt]
    IN /\ sessions' = MapSet(sessions, session)
       /\ expiredSessions' = expiredSessions
       /\ ensureBeforeUnloadListener

\* persistEntries, after its validation: the session is stored, a tombstone
\* under the key is dropped, the unload listener is attached once.
persistEntriesStore(key, entries, metadata) ==
    LET createdAt == IF metadata.createdAt # NoTime THEN metadata.createdAt ELSE now
        session == [key |-> key,
                    entries |-> entries,
                    counts |-> summarizeTransientEntries(entries),
                    createdAt |-> createdAt,
                    updatedAt |-> IF metadata.updatedAt # NoTime
                                  THEN metadata.updatedAt ELSE createdAt]
    IN /\ sessions' = MapSet(sessions, session)
       /\ expiredSessions' = [expiredSessions EXCEPT ![key] = NoRecord]
       /\ ensureBeforeUnloadListener

persistEntriesValid(entries) ==
    Len(entries) > 0 /\ \A n \in 1..Len(entries) : isTransientEntry(entries[n])

persistEntriesResult(op, key, entries) ==
    [op |-> op, key |-> key, input |-> entries, ok |-> TRUE,
     storageType |-> TRANSIENT_STORAGE_TYPE,
     counts |-> summarizeTransientEntries(entries)]

PersistEntriesRegisters(t, rawEntries, metadata, generated) ==
    LET key == IF metadata.key # Undefined THEN metadata.key ELSE generated IN
    /\ pc[t] = "idle"
    /\ KeyChoice(metadata, generated, persistEntriesValid(rawEntries))
    /\ persistEntriesValid(rawEntries)
    /\ persistEntriesStore(key, rawEntries, metadata)
    /\ res' = [res EXCEPT ![t] = persistEntriesResult("persistEntries", key, rawEntries)]
    /\ registryStore' = [registryStore EXCEPT ![key] =
           [key |-> key, storageType |-> TRANSIENT_STORAGE_TYPE,
            createdAt |-> now, updatedAt |-> now]]
    /\ UNCHANGED <<nativeStore, envVars, pc, call, connVars>>

\* transientSessions.persistEntries(rawEntries, metadata), called directly.
PersistEntries(t, rawEntries, metadata, generated) ==
    LET key == IF metadata.key # Undefined THEN metadata.key ELSE generated IN
    /\ pc[t] = "idle"
    /\ KeyChoice(metadata, generated, persistEntriesValid(rawEntries))
    /\ IF persistEntriesValid(rawEntries)
       THEN /\ persistEntriesStore(key, rawEntries, metadata)
            /\ res' = [res EXCEPT ![t] = persistEntriesResult("persistEntries", key, rawEntries)]
       ELSE /\ UNCHANGED transientVars
            /\ res' = [res EXCEPT ![t] =
                   [op |-> "persistEntries", key |-> metadata.key, input |-> rawEntries,
                    threw |-> TRUE, error |-> "invalid-entries"]]
    /\ UNCHANGED <<storeVars, envVars, pc, call, connVars>>

\* transientSessions.expireSession(key, reason)
ExpireSession(t, key, reason) ==
    /\ pc[t] = "idle"
    /\ IF key \in SessionKeys
       THEN /\ sessions' = SeqWithout(sessions, key)
            /\ expiredSessions' = [expiredSessions EXCEPT ![key] = Tombstone(key, reason)]
            /\ res' = [res EXCEPT ![t] =
                   [op |-> "expireSession", key |-> key, ok |-> TRUE, reason |-> reason]]
       ELSE /\ UNCHANGED <<sessions, expiredSessions>>
            /\ res' = [res EXCEPT ![t] =
                   [op |-> "expireSession", key |-> key, ok |-> FALSE, reason |-> "unknown-key"]]
    /\ UNCHANGED <<unloadListenerAttached, listenerCalls, storeVars, envVars, pc, call, connVars>>

\* transientSessions.expireAll(reason)
ExpireAll(t, reason) ==
    /\ pc[t] = "idle"
    /\ IF sessions = <<>>
       THEN UNCHANGED <<sessions, expiredSessions>>
       ELSE expireAll(reason)
    /\ res' = [res EXCEPT ![t] =
           [op |-> "expireAll", key |-> Undefined, count |-> Len(sessions)]]
    /\ UNCHANGED <<unloadListenerAttached, listenerCalls, storeVars, envVars, pc, call, connVars>>

\* The page's beforeunload event reaches the handler ensureBeforeUnloadListener
\* attached.
BeforeUnload ==
    /\ unloadListenerAttached
    /\ IF sessions = <<>>
       THEN UNCHANGED <<sessions, expiredSessions>>
       ELSE expireAll("page-unload")
    /\ UNCHANGED <<unloadListenerAttached, listenerCalls, storeVars, envVars, taskVars, connVars>>

transientRemoveKeepsTombstone(key) ==
    /\ sessions' = SeqWithout(sessions, key)
    /\ UNCHANGED expiredSessions

\* transientSessions.remove(key): the state change and the result.
transientRemove(key) ==
    /\ sessions' = SeqWithout(sessions, key)
    /\ expiredSessions' = [expiredSessions EXCEPT ![key] = NoRecord]

transientRemoveResult(op, key) ==
    IF key \in SessionKeys \/ expiredSessions[key] # NoRecord
    THEN [op |-> op, key |-> key, ok |-> TRUE]
    ELSE [op |-> op, key |-> key, ok |-> FALSE, reason |-> "unknown-key"]

\* transientSessions.getSession(key) / getStatus(key)
getSession(key) == IF key \in SessionKeys THEN SessionOf(key) ELSE NoRecord

getStatusForgetsExpired(key) ==
    IF key \in SessionKeys THEN [status |-> "active", key |-> key]
    ELSE [status |-> "missing", reason |-> "unknown-key", key |-> key]

getStatus(key) ==
    IF key \in SessionKeys THEN [status |-> "active", key |-> key]
    ELSE IF key \in Keys /\ expiredSessions[key] # NoRecord THEN expiredSessions[key]
    ELSE [status |-> "missing", reason |-> "unknown-key", key |-> key]

\* ---------------------------------------------------------------- registry
\* Every store operation below is one transaction.  Its parameter up says
\* whether the transaction could be had and committed: withStore rejects when
\* ensureDb rejects or the transaction errors or aborts, and then the
\* partition is as it was.

registerKeyRecordOwnClock(metadata) ==
    [storageType |-> IF metadata.storageType # Undefined
                     THEN metadata.storageType ELSE DEFAULT_STORAGE_TYPE,
     createdAt |-> now,
     updatedAt |-> now]

\* The record registerKey(key, metadata) puts.
registerKeyRecord(metadata) ==
    [storageType |-> IF metadata.storageType # Undefined
                     THEN metadata.storageType ELSE DEFAULT_STORAGE_TYPE,
     createdAt |-> IF metadata.createdAt # NoTime THEN metadata.createdAt ELSE now,
     updatedAt |-> IF metadata.updatedAt # NoTime THEN metadata.updatedAt ELSE now]

\* registry.registerKey(key, metadata), called directly.
RegisterKey(t, metadata, generated, up) ==
    LET key == IF metadata.key # Undefined THEN metadata.key ELSE generated IN
    /\ pc[t] = "idle"
    /\ KeyChoice(metadata, generated, TRUE)
    /\ IF up
       THEN /\ registryStore' = [registryStore EXCEPT ![key] = registerKeyRecord(metadata)]
            /\ res' = [res EXCEPT ![t] =
                   [op |-> "registerKey", key |-> key, ok |-> TRUE,
                    storageType |-> registerKeyRecord(metadata).storageType]]
       ELSE /\ UNCHANGED registryStore
            /\ res' = [res EXCEPT ![t] = Threw("registerKey", key, "store-unavailable")]
    /\ UNCHANGED <<nativeStore, transientVars, envVars, pc, call, connVars>>

\* ---------------------------------------------------- native handle backend
Finish(t, result) ==
    /\ pc' = [pc EXCEPT ![t] = "idle"]
    /\ call' = [call EXCEPT ![t] = NoCall]
    /\ res' = [res EXCEPT ![t] = result]

PersistFailureRethrown(c, error, log) ==
    [op |-> c.via, key |-> c.key, input |-> c.input, threw |-> TRUE,
     error |-> error, before |-> c.before, log |-> log]

\* How a failure of persistHandles reaches the caller: add catches it and
\* returns storage-failure with the error attached, a direct call rejects.
\* log lists the store steps the call made, in order.
PersistFailure(c, error, log) ==
    IF c.via = "add"
    THEN [op |-> "add", key |-> c.key, input |-> c.input, ok |-> FALSE,
          reason |-> "storage-failure", error |-> error,
          before |-> c.before, log |-> log]
    ELSE [op |-> "persistHandles", key |-> c.key, input |-> c.input, threw |-> TRUE,
          error |-> error, before |-> c.before, log |-> log]

persistHandlesValidNonEmpty(handles) == Len(handles) > 0

persistHandlesValid(handles) ==
    Len(handles) > 0 /\ \A n \in 1..Len(handles) : isFileSystemHandle(handles[n])

persistHandlesRecordStaleCounts(handles, metadata) ==
    LET createdAt == IF metadata.createdAt # NoTime THEN metadata.createdAt ELSE now
    IN [handles |-> handles,
        createdAt |-> createdAt,
        updatedAt |-> IF metadata.updatedAt # NoTime THEN metadata.updatedAt ELSE createdAt,
        fileCount |-> 0,
        directoryCount |-> 0,
        handleCount |-> Len(handles)]

\* The record persistHandles builds before its first transaction.
persistHandlesRecord(handles, metadata) ==
    LET createdAt == IF metadata.createdAt # NoTime THEN metadata.createdAt ELSE now
        summary == summarizeHandles(handles, tree)
    IN [handles |-> handles,
        createdAt |-> createdAt,
        updatedAt |-> IF metadata.updatedAt # NoTime THEN metadata.updatedAt ELSE createdAt,
        fileCount |-> summary.files,
        directoryCount |-> summary.directories,
        handleCount |-> summary.handles]

\* persistHandles up to its first await of the store: validation, key,
\* timestamps, the traversal.
persistHandlesBegin(t, via, handles, metadata, key) ==
    LET c == [op |-> "persistHandles", via |-> via, key |-> key,
              input |-> handles,
              record |-> persistHandlesRecord(handles, metadata),
              summary |-> summarizeHandles(handles, tree),
              before |-> [registry |-> registryStore[key], native |-> nativeStore[key]],
              log |-> <<>>]
    IN IF summarizeHandlesThrows(handles, tree)
       THEN /\ res' = [res EXCEPT ![t] =
                   PersistFailure(c, "traversal-error", <<>>)]
            /\ UNCHANGED <<pc, call>>
       ELSE /\ pc' = [pc EXCEPT ![t] = "ph_put"]
            /\ call' = [call EXCEPT ![t] = c]
            /\ res' = [res EXCEPT ![t] = NoResult]

\* nativeHandles.persistHandles(handles, metadata), called directly.
PersistHandles(t, handles, metadata, generated) ==
    LET key == IF metadata.key # Undefined THEN metadata.key ELSE generated IN
    /\ pc[t] = "idle"
    /\ KeyChoice(metadata, generated, persistHandlesValid(handles))
    /\ IF persistHandlesValid(handles)
       THEN persistHandlesBegin(t, "persistHandles", handles, metadata, key)
       ELSE /\ res' = [res EXCEPT ![t] =
                   [op |-> "persistHandles", key |-> metadata.key, input |-> handles,
                    threw |-> TRUE,
                    error |-> IF Len(handles) = 0 THEN "missing-selection"
                              ELSE "invalid-handle",
                    log |-> <<>>]]
            /\ UNCHANGED <<pc, call>>
    /\ UNCHANGED <<storeVars, transientVars, envVars, connVars>>

\* await withStore('readwrite', store.put(record))
PhPut(t, up) ==
    /\ pc[t] = "ph_put"
    /\ IF up
       THEN /\ nativeStore' = [nativeStore EXCEPT ![call[t].key] = call[t].record]
            /\ pc' = [pc EXCEPT ![t] = "ph_register"]
            /\ call' = [call EXCEPT ![t].log = Append(@, "put-native")]
            /\ UNCHANGED res
       ELSE /\ UNCHANGED nativeStore
            /\ Finish(t, PersistFailure(call[t], "native-put-failed",
                                        Append(call[t].log, "put-native-failed")))
    /\ UNCHANGED <<registryStore, transientVars, envVars, connVars>>

persistHandlesResult(c) ==
    [op |-> c.via, key |-> c.key, input |-> c.input, ok |-> TRUE,
     storageType |-> NATIVE_HANDLE_STORAGE_TYPE,
     counts |-> c.summary,
     createdAt |-> c.record.createdAt,
     updatedAt |-> c.record.updatedAt,
     log |-> Append(c.log, "put-registry")]

\* await registry.registerKey(key, {storageType, createdAt, updatedAt})
PhRegister(t, up) ==
    /\ pc[t] = "ph_register"
    /\ IF up
       THEN /\ registryStore' = [registryStore EXCEPT ![call[t].key] =
                   registerKeyRecord([key |-> call[t].key,
                                      storageType |-> NATIVE_HANDLE_STORAGE_TYPE,
                                      createdAt |-> call[t].record.createdAt,
                                      updatedAt |-> call[t].record.updatedAt])]
            /\ Finish(t, persistHandlesResult(call[t]))
       ELSE /\ UNCHANGED registryStore
            /\ pc' = [pc EXCEPT ![t] = "ph_compensate"]
            /\ call' = [call EXCEPT ![t].log = Append(@, "register-failed")]
            /\ UNCHANGED res
    /\ UNCHANGED <<nativeStore, transientVars, envVars, connVars>>

compensateSkip(t, up) ==
    UNCHANGED nativeStore

\* The catch block's withStore('readwrite', store.delete(key)).catch(() => {}).
compensate(t, up) ==
    IF up THEN nativeStore' = [nativeStore EXCEPT ![call[t].key] = NoRecord]
    ELSE UNCHANGED nativeStore

caughtErrorFromCleanup(error, cleanedUp) ==
    IF cleanedUp THEN error ELSE "native-delete-failed"

\* .catch(() => {}) on the compensating delete, then throw error: the error
\* that leaves the catch block.
caughtError(error, cleanedUp) == error

\* The catch block of persistHandles: the compensating delete, whose own
\* failure is swallowed, then the registration error is thrown again.
PhCompensate(t, up) ==
    /\ pc[t] = "ph_compensate"
    /\ compensate(t, up)
    /\ Finish(t, PersistFailure(call[t], caughtError("registration-failed", up),
                     Append(call[t].log,
                            IF up THEN "delete-native" ELSE "delete-native-failed")))
    /\ UNCHANGED <<registryStore, transientVars, envVars, connVars>>

\* nativeHandles.getRecord(key): a pure read of the native partition.
nativeGetRecord(key) == IF key \in Keys THEN nativeStore[key] ELSE NoRecord

\* nativeHandles.remove(key) from its first transaction on: the native
\* record is deleted, then the registry pointer.
nativeRemoveBeginSkipsNative(t, op, key) ==
    /\ pc' = [pc EXCEPT ![t] = "rm_registry"]
    /\ call' = [call EXCEPT ![t] = [op |-> op, key |-> key, log |-> <<>>]]
    /\ res' = [res EXCEPT ![t] = NoResult]

nativeRemoveBegin(t, op, key) ==
    /\ pc' = [pc EXCEPT ![t] = "rm_native"]
    /\ call' = [call EXCEPT ![t] = [op |-> op, key |-> key, log |-> <<>>]]
    /\ res' = [res EXCEPT ![t] = NoResult]

\* nativeHandles.remove(key), called directly.
NativeRemove(t, key) ==
    /\ pc[t] = "idle"
    /\ IF key = ""
       THEN /\ res' = [res EXCEPT ![t] =
                   [op |-> "nativeRemove", key |-> key, ok |-> FALSE, reason |-> "missing-key"]]
            /\ UNCHANGED <<pc, call>>
       ELSE nativeRemoveBegin(t, "nativeRemove", key)
    /\ UNCHANGED <<storeVars, transientVars, envVars, connVars>>

RmNativeYieldsToAdd(t, up) ==
    /\ pc[t] = "rm_native"
    /\ nativeStore' =
           IF \E o \in Tasks : pc[o] = "ph_register" /\ call[o].key = call[t].key
           THEN nativeStore
           ELSE [nativeStore EXCEPT ![call[t].key] = NoRecord]
    /\ pc' = [pc EXCEPT ![t] = "rm_registry"]
    /\ call' = [call EXCEPT ![t].log = Append(@, "delete-native")]
    /\ UNCHANGED res
    /\ UNCHANGED <<registryStore, transientVars, envVars, connVars>>

\* await withStore('readwrite', store.delete(key))
RmNative(t, up) ==
    /\ pc[t] = "rm_native"
    /\ IF up
       THEN /\ nativeStore' = [nativeStore EXCEPT ![call[t].key] = NoRecord]
            /\ pc' = [pc EXCEPT ![t] = "rm_registry"]
            /\ call' = [call EXCEPT ![t].log = Append(@, "delete-native")]
            /\ UNCHANGED res
       ELSE /\ UNCHANGED nativeStore
            /\ Finish(t, [op |-> call[t].op, key |-> call[t].key, threw |-> TRUE,
                          error |-> "native-delete-failed", log |-> call[t].log])
    /\ UNCHANGED <<registryStore, transientVars, envVars, connVars>>

\* await registry.removeKey(key); return {ok: true, key}
RmRegistry(t, up) ==
    /\ pc[t] = "rm_registry"
    /\ IF up
       THEN /\ registryStore' = [registryStore EXCEPT ![call[t].key] = NoRecord]
            /\ Finish(t, [op |-> call[t].op, key |-> call[t].key, ok |-> TRUE,
                          log |-> Append(call[t].log, "delete-registry")])
       ELSE /\ UNCHANGED registryStore
            /\ Finish(t, [op |-> call[t].op, key |-> call[t].key, threw |-> TRUE,
                          error |-> "registry-delete-failed", log |-> call[t].log])
    /\ UNCHANGED <<nativeStore, transientVars, envVars, connVars>>

\* ------------------------------------------------------------- permissions
aggregatePermissionStatePromptFirst(states) ==
    IF Len(states) = 0 THEN "unknown"
    ELSE IF \A n \in 1..Len(states) : states[n] = "granted" THEN "granted"
    ELSE IF \E n \in 1..Len(states) : states[n] = "prompt" THEN "prompt"
    ELSE IF \E n \in 1..Len(states) : states[n] = "denied" THEN "denied"
    ELSE "unknown"

aggregatePermissionState(states) ==
    IF Len(states) = 0 THEN "unknown"
    ELSE IF \A n \in 1..Len(states) : states[n] = "granted" THEN "granted"
    ELSE IF \E n \in 1..Len(states) : states[n] = "denied" THEN "denied"
    ELSE IF \E n \in 1..Len(states) : states[n] = "prompt" THEN "prompt"
    ELSE "unknown"

RECURSIVE ProbeLoopAbortOnThrow(_, _, _, _)
ProbeLoopAbortOnThrow(handles, n, outcomes, acc) ==
    IF n > Len(handles) THEN acc
    ELSE IF outcomes[n] = "throw"
    THEN [results |-> Append(acc.results, "denied"),
          probed |-> Append(acc.probed, handles[n])]
    ELSE ProbeLoopAbortOnThrow(handles, n + 1, outcomes,
             [results |-> Append(acc.results, outcomes[n]),
              probed |-> Append(acc.probed, handles[n])])

RECURSIVE ProbeLoop(_, _, _, _)
\* The for loop of requestPermissions from handle n on: outcomes[n] is what
\* permissionRequester does for the n-th handle (a state it resolves to, or
\* "throw"); acc.probed lists the handles it was called with.
ProbeLoop(handles, n, outcomes, acc) ==
    IF n > Len(handles) THEN acc
    ELSE ProbeLoop(handles, n + 1, outcomes,
             [results |-> Append(acc.results,
                                 IF outcomes[n] = "throw" THEN "denied" ELSE outcomes[n]),
              probed |-> Append(acc.probed, handles[n])])

\* nativeHandles.requestPermissions(key, options) on the record it read.
requestPermissionsResult(op, key, outcomes) ==
    LET record == nativeGetRecord(key) IN
    IF record = NoRecord
    THEN [op |-> op, key |-> key, ok |-> FALSE, state |-> "missing", reason |-> "unknown-key"]
    ELSE LET run == ProbeLoop(record.handles, 1, outcomes,
                              [results |-> <<>>, probed |-> <<>>])
             state == aggregatePermissionState(run.results)
         IN [op |-> op, key |-> key, ok |-> (state = "granted"), state |-> state,
             counts |-> [files |-> record.fileCount,
                         directories |-> record.directoryCount,
                         handles |-> record.handleCount],
             outcomes |-> SubSeq(outcomes, 1, Len(record.handles)),
             results |-> run.results,
             probed |-> run.probed]

\* -------------------------------------------------------------- dispatcher
\* A lookup result always carries ok, reason, storageType and source;
\* Undefined stands for a field the source leaves out.
resolveStorageLookupTombstonesFirst(key) ==
    IF key = ""
    THEN [ok |-> FALSE, reason |-> "missing-key", storageType |-> Undefined, source |-> Undefined]
    ELSE IF getStatus(key).status = "expired"
    THEN [ok |-> FALSE, reason |-> "transient-expired",
          storageType |-> TRANSIENT_STORAGE_TYPE, source |-> Undefined]
    ELSE IF registryStore[key] # NoRecord
    THEN [ok |-> TRUE, reason |-> Undefined,
          storageType |-> registryStore[key].storageType, source |-> "registry"]
    ELSE IF getSession(key) # NoRecord
    THEN [ok |-> TRUE, reason |-> Undefined, storageType |-> TRANSIENT_STORAGE_TYPE,
          source |-> "transient-session"]
    ELSE [ok |-> FALSE, reason |-> "unknown-key", storageType |-> Undefined, source |-> Undefined]

resolveStorageLookupSessionsFirst(key) ==
    IF key = ""
    THEN [ok |-> FALSE, reason |-> "missing-key", storageType |-> Undefined, source |-> Undefined]
    ELSE IF getSession(key) # NoRecord
    THEN [ok |-> TRUE, reason |-> Undefined, storageType |-> TRANSIENT_STORAGE_TYPE,
          source |-> "transient-session"]
    ELSE IF registryStore[key] # NoRecord
    THEN [ok |-> TRUE, reason |-> Undefined,
          storageType |-> registryStore[key].storageType, source |-> "registry"]
    ELSE IF getStatus(key).status = "expired"
    THEN [ok |-> FALSE, reason |-> "transient-expired",
          storageType |-> TRANSIENT_STORAGE_TYPE, source |-> Undefined]
    ELSE [ok |-> FALSE, reason |-> "unknown-key", storageType |-> Undefined, source |-> Undefined]

\* resolveStorageLookup(key), its registry read done: registry first, then
\* the live sessions, then the tombstones.
resolveStorageLookup(key) ==
    IF key = ""
    THEN [ok |-> FALSE, reason |-> "missing-key", storageType |-> Undefined, source |-> Undefined]
    ELSE IF registryStore[key] # NoRecord
    THEN [ok |-> TRUE, reason |-> Undefined,
          storageType |-> registryStore[key].storageType, source |-> "registry"]
    ELSE IF getSession(key) # NoRecord
    THEN [ok |-> TRUE, reason |-> Undefined, storageType |-> TRANSIENT_STORAGE_TYPE,
          source |-> "transient-session"]
    ELSE IF getStatus(key).status = "expired"
    THEN [ok |-> FALSE, reason |-> "transient-expired",
          storageType |-> TRANSIENT_STORAGE_TYPE, source |-> Undefined]
    ELSE [ok |-> FALSE, reason |-> "unknown-key", storageType |-> Undefined, source |-> Undefined]

\* Whether a call's store reads succeed: all of them, or the registry read
\* rejects, or the native read rejects.
StoreHealth == {"up", "registry-down", "native-down"}

\* registry.listKeys(): store.getAllKeys() answers the keys of the object
\* store in ascending key order.
KeyOrder == <<"k1", "k2">>
registryListKeys == SelectSeq(KeyOrder, LAMBDA k : registryStore[k] # NoRecord)

\* transientSessions.listKeys(): Array.from(sessions.keys()), the Map's
\* insertion order.
transientListKeys == [n \in 1..Len(sessions) |-> sessions[n].key]

mergeUniqueKeysConcat(primary, secondary) == primary \o secondary

RECURSIVE mergeLoop(_, _, _)
mergeLoop(merged, seen, secondary) ==
    IF secondary = <<>> THEN merged
    ELSE IF Head(secondary) \in seen
    THEN mergeLoop(merged, seen, Tail(secondary))
    ELSE mergeLoop(Append(merged, Head(secondary)),
                   seen \cup {Head(secondary)}, Tail(secondary))

mergeUniqueKeys(primary, secondary) ==
    IF Len(secondary) = 0 THEN primary
    ELSE mergeLoop(primary, {primary[n] : n \in 1..Len(primary)}, secondary)

\* fileStorageModule.listKeys({includeTransient}), its registry read done.
listKeysResult(includeTransient) ==
    IF includeTransient = FALSE
    THEN registryListKeys
    ELSE mergeUniqueKeys(registryListKeys, transientListKeys)

ListKeys(t, includeTransient, health) ==
    /\ pc[t] = "idle"
    /\ res' = [res EXCEPT ![t] =
           IF health = "registry-down"
           THEN Threw("listKeys", Undefined, "store-unavailable")
           ELSE [op |-> "listKeys", includeTransient |-> includeTransient,
                 keys |-> listKeysResult(includeTransient)]]
    /\ UNCHANGED <<storeVars, transientVars, envVars, pc, call, connVars>>

hasMissingEntriesFilesOnly(freshCounts, storedCounts) ==
    freshCounts.files < storedCounts.fileCount

hasMissingEntries(freshCounts, storedCounts) ==
    LET missingFiles == freshCounts.files < storedCounts.fileCount
        missingDirectories == freshCounts.directories < storedCounts.directoryCount
    IN missingFiles \/ missingDirectories

\* fileStorageModule.getStorageType(key)
getStorageTypeResult(key) ==
    LET lookup == resolveStorageLookup(key) IN
    IF ~lookup.ok
    THEN [op |-> "getStorageType", key |-> key, ok |-> FALSE,
          reason |-> lookup.reason, storageType |-> lookup.storageType]
    ELSE [op |-> "getStorageType", key |-> key, ok |-> TRUE,
          storageType |-> lookup.storageType, source |-> lookup.source]

GetStorageType(t, key, health) ==
    /\ pc[t] = "idle"
    /\ res' = [res EXCEPT ![t] =
           IF health = "registry-down" /\ key # ""
           THEN Threw("getStorageType", key, "store-unavailable")
           ELSE getStorageTypeResult(key)]
    /\ UNCHANGED <<storeVars, transientVars, envVars, pc, call, connVars>>

existsResultTrustsRegistry(key, verifyPermissions, outcomes) ==
    LET lookup == resolveStorageLookup(key) IN
    IF ~lookup.ok
    THEN [op |-> "exists", key |-> key, ok |-> TRUE, exists |-> FALSE,
          reason |-> lookup.reason, storageType |-> lookup.storageType]
    ELSE [op |-> "exists", key |-> key, ok |-> TRUE, exists |-> TRUE,
          reason |-> Undefined, storageType |-> lookup.storageType]

\* fileStorageModule.exists(key, {verifyPermissions}); outcomes is what the
\* permission probes do when verifyPermissions is set.
existsResult(key, verifyPermissions, outcomes) ==
    LET lookup == resolveStorageLookup(key) IN
    IF ~lookup.ok
    THEN [op |-> "exists", key |-> key, ok |-> TRUE, exists |-> FALSE,
          reason |-> lookup.reason, storageType |-> lookup.storageType]
    ELSE IF lookup.storageType = NATIVE_HANDLE_STORAGE_TYPE
    THEN IF nativeGetRecord(key) = NoRecord
         THEN [op |-> "exists", key |-> key, ok |-> TRUE, exists |-> FALSE,
               reason |-> "unknown-key", storageType |-> Undefined]
         ELSE LET response == requestPermissionsResult("requestPermissions", key, outcomes)
              IN IF verifyPermissions /\ ~response.ok
                 THEN [op |-> "exists", key |-> key, ok |-> TRUE, exists |-> FALSE,
                       reason |-> IF response.state = "missing" THEN "unknown-key"
                                  ELSE "permission-denied",
                       storageType |-> Undefined, state |-> response.state]
                 ELSE [op |-> "exists", key |-> key, ok |-> TRUE, exists |-> TRUE,
                       reason |-> Undefined, storageType |-> lookup.storageType]
    ELSE IF lookup.storageType = TRANSIENT_STORAGE_TYPE
    THEN IF getSession(key) = NoRecord
         THEN [op |-> "exists", key |-> key, ok |-> TRUE, exists |-> FALSE,
               reason |-> "transient-expired", storageType |-> lookup.storageType]
         ELSE [op |-> "exists", key |-> key, ok |-> TRUE, exists |-> TRUE,
               reason |-> Undefined, storageType |-> lookup.storageType]
    ELSE [op |-> "exists", key |-> key, ok |-> FALSE, exists |-> FALSE,
          reason |-> "unsupported-storage", storageType |-> Undefined]

\* Whether a dispatcher call on key rejects under health: its registry read
\* fails, or the native read it makes for a native-handle key fails.
ReadRejects(key, health) ==
    /\ key # ""
    /\ \/ health = "registry-down"
       \/ /\ health = "native-down"
          /\ resolveStorageLookup(key).ok
          /\ resolveStorageLookup(key).storageType = NATIVE_HANDLE_STORAGE_TYPE

Exists(t, key, verifyPermissions, outcomes, health) ==
    /\ pc[t] = "idle"
    /\ res' = [res EXCEPT ![t] =
           IF ReadRejects(key, health)
           THEN Threw("exists", key, "store-unavailable")
           ELSE existsResult(key, verifyPermissions, outcomes)]
    /\ UNCHANGED <<storeVars, transientVars, envVars, pc, call, connVars>>

\* What the iterator of a directory throws when it fails.
IteratorError == "iterator-failed"

recountNativeHandlesCountsAnyway(key) ==
    LET record == nativeGetRecord(key) IN
    IF record = NoRecord
    THEN [ok |-> FALSE, reason |-> "unknown-key", error |-> Undefined]
    ELSE LET counts == summarizeHandles(record.handles, tree)
             partial == hasMissingEntries(counts, record)
         IN [ok |-> TRUE, counts |-> counts, partial |-> partial,
             reason |-> IF partial THEN "entries-missing" ELSE Undefined]

\* recountNativeHandles(key) and the native branch of getFileCount.
recountNativeHandles(key) ==
    LET record == nativeGetRecord(key) IN
    IF record = NoRecord
    THEN [ok |-> FALSE, reason |-> "unknown-key", error |-> Undefined]
    ELSE IF summarizeHandlesThrows(record.handles, tree)
    THEN [ok |-> FALSE, reason |-> "traversal-error", error |-> IteratorError]
    ELSE LET counts == summarizeHandles(record.handles, tree)
             partial == hasMissingEntries(counts, record)
         IN [ok |-> TRUE, counts |-> counts, partial |-> partial,
             reason |-> IF partial THEN "entries-missing" ELSE Undefined]

\* fileStorageModule.getFileCount(key)
getFileCountResult(key) ==
    LET lookup == resolveStorageLookup(key) IN
    IF ~lookup.ok
    THEN [op |-> "getFileCount", key |-> key, ok |-> FALSE,
          reason |-> lookup.reason, storageType |-> lookup.storageType]
    ELSE IF lookup.storageType = NATIVE_HANDLE_STORAGE_TYPE
    THEN LET recount == recountNativeHandles(key) IN
         IF ~recount.ok
         THEN [op |-> "getFileCount", key |-> key, ok |-> FALSE,
               reason |-> recount.reason, storageType |-> lookup.storageType,
               error |-> recount.error]
         ELSE [op |-> "getFileCount", key |-> key, ok |-> TRUE,
               storageType |-> lookup.storageType, counts |-> recount.counts,
               partial |-> recount.partial,
               reason |-> IF recount.partial THEN recount.reason ELSE Undefined]
    ELSE IF lookup.storageType = TRANSIENT_STORAGE_TYPE
    THEN IF getSession(key) = NoRecord
         THEN [op |-> "getFileCount", key |-> key, ok |-> FALSE,
               reason |-> "transient-expired", storageType |-> lookup.storageType]
         ELSE [op |-> "getFileCount", key |-> key, ok |-> TRUE,
               storageType |-> lookup.storageType,
               counts |-> summarizeTransientEntries(getSession(key).entries),
               partial |-> FALSE, reason |-> Undefined]
    ELSE [op |-> "getFileCount", key |-> key, ok |-> FALSE,
          reason |-> "unsupported-storage", storageType |-> Undefined]

GetFileCountRefreshesRecord(t, key, health) ==
    LET result == IF ReadRejects(key, health)
                  THEN Threw("getFileCount", key, "store-unavailable")
                  ELSE getFileCountResult(key)
    IN
    /\ pc[t] = "idle"
    /\ res' = [res EXCEPT ![t] = result]
    /\ nativeStore' =
           IF "counts" \in DOMAIN result
              /\ result.storageType = NATIVE_HANDLE_STORAGE_TYPE
           THEN [nativeStore EXCEPT ![key].fileCount = result.counts.files,
                                    ![key].directoryCount = result.counts.directories]
           ELSE nativeStore
    /\ UNCHANGED <<registryStore, transientVars, envVars, pc, call, connVars>>

GetFileCount(t, key, health) ==
    /\ pc[t] = "idle"
    /\ res' = [res EXCEPT ![t] =
           IF ReadRejects(key, health)
           THEN Threw("getFileCount", key, "store-unavailable")
           ELSE getFileCountResult(key)]
    /\ UNCHANGED <<storeVars, transientVars, envVars, pc, call, connVars>>

dispatchRequestPermissionsForwardsAll(key, outcomes) ==
    LET lookup == resolveStorageLookup(key) IN
    IF ~lookup.ok
    THEN [op |-> "requestPermissions", key |-> key, ok |-> FALSE,
          reason |-> lookup.reason, storageType |-> lookup.storageType]
    ELSE requestPermissionsResult("requestPermissions", key, outcomes)

\* fileStorageModule.requestPermissions(key, options)
dispatchRequestPermissionsResult(key, outcomes) ==
    LET lookup == resolveStorageLookup(key) IN
    IF ~lookup.ok
    THEN [op |-> "requestPermissions", key |-> key, ok |-> FALSE,
          reason |-> lookup.reason, storageType |-> lookup.storageType]
    ELSE IF lookup.storageType # NATIVE_HANDLE_STORAGE_TYPE
    THEN [op |-> "requestPermissions", key |-> key, ok |-> FALSE,
          reason |-> "unsupported-storage", storageType |-> lookup.storageType]
    ELSE requestPermissionsResult("requestPermissions", key, outcomes)

RequestPermissions(t, key, outcomes, health) ==
    /\ pc[t] = "idle"
    /\ res' = [res EXCEPT ![t] =
           IF ReadRejects(key, health)
           THEN Threw("requestPermissions", key, "store-unavailable")
           ELSE dispatchRequestPermissionsResult(key, outcomes)]
    /\ UNCHANGED <<storeVars, transientVars, envVars, pc, call, connVars>>

\* fileStorageModule.add(selection, metadata): an empty selection is turned
\* away, a pure handle selection starts persistHandles, anything else goes
\* to persistEntries, whose throw add catches.
Add(t, selection, metadata, generated) ==
    LET key == IF metadata.key # Undefined THEN metadata.key ELSE generated IN
    /\ pc[t] = "idle"
    /\ KeyChoice(metadata, generated,
                 isPureNativeSelection(selection) \/ persistEntriesValid(selection))
    /\ IF Len(selection) = 0
       THEN /\ res' = [res EXCEPT ![t] =
                   [op |-> "add", key |-> metadata.key, input |-> selection,
                    ok |-> FALSE, reason |-> "no-selection"]]
            /\ UNCHANGED <<pc, call, transientVars>>
       ELSE IF isPureNativeSelection(selection)
       THEN /\ persistHandlesBegin(t, "add", selection, metadata, key)
            /\ UNCHANGED transientVars
       ELSE IF persistEntriesValid(selection)
       THEN /\ persistEntriesStore(key, selection, metadata)
            /\ res' = [res EXCEPT ![t] = persistEntriesResult("add", key, selection)]
            /\ UNCHANGED <<pc, call>>
       ELSE /\ res' = [res EXCEPT ![t] =
                   [op |-> "add", key |-> metadata.key, input |-> selection, ok |-> FALSE,
                    reason |-> "storage-failure", error |-> "invalid-entries", log |-> <<>>]]
            /\ UNCHANGED <<pc, call, transientVars>>
    /\ UNCHANGED <<storeVars, envVars, connVars>>

\* fileStorageModule.remove(key): the lookup, then the backend's remove.  The
\* native backend's remove goes on in RmNative and RmRegistry.
Remove(t, key, health) ==
    LET lookup == resolveStorageLookup(key) IN
    /\ pc[t] = "idle"
    /\ IF health = "registry-down" /\ key # ""
       THEN /\ res' = [res EXCEPT ![t] = Threw("remove", key, "store-unavailable")]
            /\ UNCHANGED <<pc, call, transientVars>>
       ELSE IF ~lookup.ok
       THEN IF lookup.reason = "transient-expired"
            THEN /\ transientRemove(key)
                 /\ res' = [res EXCEPT ![t] =
                        [op |-> "remove", key |-> key, ok |-> TRUE, reason |-> lookup.reason]]
                 /\ UNCHANGED <<pc, call, unloadListenerAttached, listenerCalls>>
            ELSE /\ res' = [res EXCEPT ![t] =
                        [op |-> "remove", key |-> key, ok |-> FALSE, reason |-> lookup.reason]]
                 /\ UNCHANGED <<pc, call, transientVars>>
       ELSE IF lookup.storageType = NATIVE_HANDLE_STORAGE_TYPE
       THEN /\ nativeRemoveBegin(t, "remove", key)
            /\ UNCHANGED transientVars
       ELSE IF lookup.storageType = TRANSIENT_STORAGE_TYPE
       THEN /\ transientRemove(key)
            /\ res' = [res EXCEPT ![t] = transientRemoveResult("remove", key)]
            /\ UNCHANGED <<pc, call, unloadListenerAttached, listenerCalls>>
       ELSE /\ res' = [res EXCEPT ![t] =
                   [op |-> "remove", key |-> key, ok |-> FALSE, reason |-> "unsupported-storage"]]
            /\ UNCHANGED <<pc, call, transientVars>>
    /\ UNCHANGED <<storeVars, envVars, connVars>>

\* transientSessions.remove(key), called directly.
TransientRemove(t, key) ==
    /\ pc[t] = "idle"
    /\ transientRemove(key)
    /\ res' = [res EXCEPT ![t] = transientRemoveResult("transientRemove", key)]
    /\ UNCHANGED <<unloadListenerAttached, listenerCalls, storeVars, envVars, pc, call, connVars>>

\* ------------------------------------------------------------ environment
\* The shapes the file system under d1 and d2 can take.
Trees ==
    { [d1 |-> <<"f1", "d2">>, d2 |-> <<"f2">>],
      [d1 |-> <<"f1">>, d2 |-> <<"f2">>],
      [d1 |-> <<"f1", "f2">>, d2 |-> <<>>],
      [d1 |-> <<"f1", "d2">>, d2 |-> <<>>],
      [d1 |-> <<"f1", "f2", "d2">>, d2 |-> <<"f1", "f2">>],
      [d1 |-> <<"f1", "d2">>, d2 |-> <<"f2", IteratorThrows>>] }
InitialTree == [d1 |-> <<"f1", "d2">>, d2 |-> <<"f2">>]

\* Time passes.
Tick ==
    /\ clock < MaxClock
    /\ clock' = clock + 1
    /\ UNCHANGED <<tree, mem, walk, tabs, storeVars, transientVars, taskVars, connVars>>

\* Files and directories are created or deleted outside the module.
Mutate(next) ==
    /\ next # tree
    /\ tree' = next
    /\ UNCHANGED <<clock, mem, walk, tabs, storeVars, transientVars, taskVars, connVars>>

\* --------------------------------------------------------------- connector
\* No explicit version: indexedDB.open(name).
NoVersion == -1

closeDatabaseLeavesOpen(connection) == connection

\* closeDatabase(db): db.close().
closeDatabase(connection) == [connection EXCEPT !.open = FALSE]

\* ensureStores(db, requestedStore) in an upgrade: the object stores after it.
ensureStoresRequestedOnly(stores, requestedStore) == stores \cup {requestedStore}

ensureStores(stores, requestedStore) ==
    stores \cup STORE_DEFINITIONS \cup {requestedStore}

attachVersionChangeAutoCloseNever(connection) == [connection EXCEPT !.autoClose = FALSE]

\* attachVersionChangeAutoClose(db): the connection closes itself on versionchange.
attachVersionChangeAutoClose(connection) == [connection EXCEPT !.autoClose = TRUE]

\* The page's connections once a versionchange event has been delivered.
AfterVersionChange ==
    [c \in Components |->
        IF conn[c] # NoRecord /\ conn[c].autoClose
        THEN [conn[c] EXCEPT !.open = FALSE] ELSE conn[c]]

StillOpen(connections) ==
    \E c \in Components : connections[c] # NoRecord /\ connections[c].open

hasRequestedStoreUnchecked(storeName, stores) == TRUE

\* hasRequestedStore of defaultOpenDatabase.
hasRequestedStore(storeName, stores) == storeName \in stores

nextVersionFromStoreOnly(currentVersion, version) == version

\* nextVersion of defaultOpenDatabase for a connection lacking the store.
nextVersion(currentVersion, version) ==
    IF currentVersion # NoVersion /\ currentVersion >= version
    THEN currentVersion + 1 ELSE version + 1

ensureDbAlwaysOpens(c) ==
    /\ dbPromise' = [dbPromise EXCEPT ![c] = "pending"]
    /\ opener' = [opener EXCEPT ![c] =
           [attempt |-> 0, currentVersion |-> DEFAULT_DB_VERSION]]
    /\ openCalls' = [openCalls EXCEPT ![c] = @ + 1]
    /\ conn' = [conn EXCEPT ![c] = NoRecord]

\* ensureDb(): openDatabase is called only while no promise is cached.
ensureDb(c) ==
    IF dbPromise[c] = "unset"
    THEN /\ dbPromise' = [dbPromise EXCEPT ![c] = "pending"]
         /\ opener' = [opener EXCEPT ![c] =
                [attempt |-> 0, currentVersion |-> DEFAULT_DB_VERSION]]
         /\ openCalls' = [openCalls EXCEPT ![c] = @ + 1]
         /\ UNCHANGED conn
    ELSE UNCHANGED <<dbPromise, opener, openCalls, conn>>

\* A task calls ensureDb() of component c (op "ensureDb"), or a store
\* operation of it (op "storeOp"), which starts with await ensureDb().
NeedDb(t, c, op) ==
    /\ pc[t] = "idle"
    /\ ensureDb(c)
    /\ pc' = [pc EXCEPT ![t] = "await_db"]
    /\ call' = [call EXCEPT ![t] =
           [op |-> op, key |-> Undefined, comp |-> c, found |-> dbPromise[c]]]
    /\ res' = [res EXCEPT ![t] = NoResult]
    /\ UNCHANGED <<dbVersion, dbStores, foreign, connSeq, openedDb, upgradeQueue, legacy,
                   storeVars, transientVars, envVars>>

loopEndsLate(attempt) == ~(attempt < MAX_DB_MIGRATION_ATTEMPTS + 1)

\* The loop of defaultOpenDatabase ends once attempt < MAX_DB_MIGRATION_ATTEMPTS
\* is false.
loopEnds(attempt) == ~(attempt < MAX_DB_MIGRATION_ATTEMPTS)

\* One iteration of the loop of defaultOpenDatabase for component c.  fault
\* is an open error other than VersionError and BlockedError.
OpenAttempt(c, fault) ==
    LET o == opener[c]
        cv == o.currentVersion
        storeName == StoreNameOf(c)
        upgrades == IF cv = NoVersion THEN dbVersion = 0 ELSE cv > dbVersion
        target == IF cv = NoVersion THEN 1 ELSE cv
        closed == AfterVersionChange
        blocked == upgrades /\ (foreign = "open" \/ StillOpen(closed))
        versionError == cv # NoVersion /\ cv < dbVersion
        newVersion == IF upgrades THEN target ELSE dbVersion
        newStores == IF upgrades THEN ensureStores(dbStores, storeName) ELSE dbStores
        opened == attachVersionChangeAutoClose(
                      [id |-> connSeq + 1, version |-> newVersion,
                       stores |-> newStores, open |-> TRUE, autoClose |-> FALSE])
        lastAttempt == loopEnds(o.attempt + 1)
        giveUp(error) ==
            /\ dbPromise' = [dbPromise EXCEPT ![c] = "rejected"]
            /\ opener' = [opener EXCEPT ![c] =
                   [attempt |-> o.attempt + 1, currentVersion |-> cv, error |-> error]]
        again(version) ==
            IF lastAttempt THEN giveUp("provisioning-failure")
            ELSE /\ opener' = [opener EXCEPT ![c] =
                        [attempt |-> o.attempt + 1, currentVersion |-> version]]
                 /\ UNCHANGED dbPromise
    IN
    /\ dbPromise[c] = "pending"
    /\ upgradeQueue = <<>>
    /\ IF fault
       THEN /\ giveUp("open-error")
            /\ openedDb' = [openedDb EXCEPT ![c] = NoRecord]
            /\ UNCHANGED <<dbVersion, dbStores, conn, connSeq, upgradeQueue>>
       ELSE IF versionError
       THEN /\ again(NoVersion)
            /\ openedDb' = [openedDb EXCEPT ![c] = NoRecord]
            /\ UNCHANGED <<dbVersion, dbStores, conn, connSeq, upgradeQueue>>
       ELSE IF blocked
       THEN /\ again(NoVersion)
            /\ conn' = closed
            /\ upgradeQueue' = Append(upgradeQueue,
                                      [version |-> target, storeName |-> storeName])
            /\ openedDb' = [openedDb EXCEPT ![c] = NoRecord]
            /\ UNCHANGED <<dbVersion, dbStores, connSeq>>
       ELSE /\ dbVersion' = newVersion
            /\ dbStores' = newStores
            /\ connSeq' = connSeq + 1
            /\ UNCHANGED upgradeQueue
            /\ IF hasRequestedStore(storeName, newStores)
               THEN /\ conn' = [(IF upgrades THEN closed ELSE conn) EXCEPT ![c] = opened]
                    /\ openedDb' = [openedDb EXCEPT ![c] = NoRecord]
                    /\ dbPromise' = [dbPromise EXCEPT ![c] = "fulfilled"]
                    /\ opener' = [opener EXCEPT ![c] =
                           [attempt |-> o.attempt + 1, currentVersion |-> cv]]
               ELSE /\ conn' = (IF upgrades THEN closed ELSE conn)
                    /\ openedDb' = [openedDb EXCEPT ![c] = closeDatabase(opened)]
                    /\ again(nextVersion(cv, newVersion))
    /\ UNCHANGED <<openCalls, foreign, legacy, storeVars, transientVars, envVars, taskVars>>

\* The awaited dbPromise of the task's component has settled: ensureDb()
\* hands the connection over; a store operation calls db.transaction on it,
\* which throws InvalidStateError on a closed connection.
DbSettled(t) ==
    LET c == call[t].comp IN
    /\ pc[t] = "await_db"
    /\ dbPromise[c] \in {"fulfilled", "rejected"}
    /\ Finish(t,
         IF dbPromise[c] = "rejected"
         THEN [op |-> call[t].op, key |-> Undefined, comp |-> c, found |-> call[t].found,
               threw |-> TRUE, error |-> opener[c].error]
         ELSE IF call[t].op = "storeOp" /\ ~conn[c].open
         THEN [op |-> call[t].op, key |-> Undefined, comp |-> c, found |-> call[t].found,
               threw |-> TRUE, error |-> "InvalidStateError"]
         ELSE [op |-> call[t].op, key |-> Undefined, comp |-> c, found |-> call[t].found,
               ok |-> TRUE, connection |-> conn[c].id,
               version |-> conn[c].version, stores |-> conn[c].stores])
    /\ UNCHANGED <<connVars, storeVars, transientVars, envVars>>

\* Another context that ignores versionchange opens the database.
ForeignOpen ==
    /\ foreign = "none"
    /\ dbVersion >= 1
    /\ upgradeQueue = <<>>
    /\ foreign' = "open"
    /\ UNCHANGED <<dbVersion, dbStores, dbPromise, opener, conn, openCalls, connSeq, openedDb,
                   upgradeQueue, legacy, storeVars, transientVars, envVars, taskVars>>

RECURSIVE RunQueue(_, _)
\* The blocked upgrade requests run in order once nothing blocks them.
RunQueue(queue, db) ==
    IF queue = <<>> THEN db
    ELSE RunQueue(Tail(queue),
             IF Head(queue).version > db.version
             THEN [version |-> Head(queue).version,
                   stores |-> ensureStores(db.stores, Head(queue).storeName)]
             ELSE db)

\* It closes; the upgrades it blocked go through.
ForeignClose ==
    LET db == RunQueue(upgradeQueue, [version |-> dbVersion, stores |-> dbStores]) IN
    /\ foreign = "open"
    /\ foreign' = "none"
    /\ dbVersion' = db.version
    /\ dbStores' = db.stores
    /\ upgradeQueue' = <<>>
    /\ UNCHANGED <<dbPromise, opener, conn, openCalls, connSeq, openedDb, legacy,
                   storeVars, transientVars, envVars, taskVars>>

\* ---------------------------------------------------------- initial states
\* After the module is loaded: createRegistry(), createNativeHandleBackend()
\* and createTransientSessionBackend() have run, nothing has been opened.
InitData ==
    /\ registryStore = [k \in Keys |-> NoRecord]
    /\ nativeStore = [k \in Keys |-> NoRecord]
    /\ sessions = <<>>
    /\ expiredSessions = [k \in Keys |-> NoRecord]
    /\ unloadListenerAttached = FALSE
    /\ listenerCalls = 0
    /\ tree = InitialTree
    /\ clock = 0
    /\ mem = [heap |-> [r \in Refs |-> Free],
              held |-> {},
              owned |-> [k \in Keys |-> NoRecord]]
    /\ walk = NoWalk
    /\ tabs = NoTabs
    /\ pc = [t \in Tasks |-> "idle"]
    /\ call = [t \in Tasks |-> NoCall]
    /\ res = [t \in Tasks |-> NoResult]

InitComponents ==
    /\ foreign = "none"
    /\ dbPromise = [c \in Components |-> "unset"]
    /\ opener = [c \in Components |->
           [attempt |-> 0, currentVersion |-> DEFAULT_DB_VERSION]]
    /\ conn = [c \in Components |-> NoRecord]
    /\ openCalls = [c \in Components |-> 0]
    /\ connSeq = 0
    /\ openedDb = [c \in Components |-> NoRecord]
    /\ upgradeQueue = <<>>

\* The database as this module's own upgrade leaves it.
InitStore ==
    /\ dbVersion = DEFAULT_DB_VERSION
    /\ dbStores = STORE_DEFINITIONS
    /\ legacy = [version |-> dbVersion, stores |-> dbStores]

\* What an earlier schema may have left: no database, or one at some version
\* with the registry store only, with both stores, or with neither.
LegacySchemas == {{}, {DEFAULT_STORE_NAME}, STORE_DEFINITIONS}
InitLegacyStore ==
    /\ dbVersion \in 0..MaxLegacyVersion
    /\ dbStores \in LegacySchemas
    /\ dbVersion = 0 => dbStores = {}
    /\ legacy = [version |-> dbVersion, stores |-> dbStores]

Init == InitData /\ InitComponents /\ InitStore

\* ------------------------------------------------------------------ inputs
Selections ==
    { <<>>, <<"d1", "f1">>, <<"x1">>, <<"f1", "x1">>, <<"f1", "j1">> }
HandleLists == {s \in Selections : persistHandlesValid(s)}
KeyInputs == Keys \cup {""}
Metadata(keys, times, types) ==
    [key : keys, createdAt : times, updatedAt : times, storageType : types]
PlainMetadata == Metadata(Keys \cup {Undefined}, {NoTime}, {Undefined})
ExpiryReasons == {"expired"}
ProbeOutcomes == {"granted", "denied", "prompt", "unknown", "throw"}
NoProbes == [n \in 1..3 |-> "granted"]

\* ---------------------------------------------------------- specifications
\* The dispatcher under one caller that makes its calls one after another,
\* with the page's unload event and store failures arriving at any time.
Next ==
    \/ \E sel \in Selections, m \in PlainMetadata, g \in Keys : Add(1, sel, m, g)
    \/ \E up \in BOOLEAN : PhPut(1, up)
    \/ \E up \in BOOLEAN : PhRegister(1, up)
    \/ \E up \in BOOLEAN : PhCompensate(1, up)
    \/ \E k \in KeyInputs, h \in {"up", "registry-down"} : Remove(1, k, h)
    \/ \E up \in BOOLEAN : RmNative(1, up)
    \/ \E up \in BOOLEAN : RmRegistry(1, up)
    \/ \E m \in Metadata(Keys, {NoTime}, {Undefined, NATIVE_HANDLE_STORAGE_TYPE}),
          up \in BOOLEAN : RegisterKey(1, m, m.key, up)
    \/ \E k \in Keys, r \in ExpiryReasons : ExpireSession(1, k, r)
    \/ \E r \in ExpiryReasons : ExpireAll(1, r)
    \/ BeforeUnload
    \/ \E k \in KeyInputs, h \in StoreHealth : GetStorageType(1, k, h)
    \/ \E k \in KeyInputs, h \in StoreHealth : Exists(1, k, FALSE, NoProbes, h)
    \/ \E b \in BOOLEAN, h \in {"up", "registry-down"} : ListKeys(1, b, h)

Spec == Init /\ [][Next]_vars

\* The native backend called directly by one caller, its three transactions
\* failing or not, while time passes.
StampedMetadata ==
    [key : Keys \cup {Undefined}, createdAt : {NoTime}, updatedAt : {NoTime, 0},
     storageType : {Undefined}]
NativeHandleLists == { <<>>, <<"d1", "f1">>, <<"f1", "x1">> }

NextNative ==
    \/ \E h \in NativeHandleLists, m \in StampedMetadata, g \in Keys :
          PersistHandles(1, h, m, g)
    \/ \E up \in BOOLEAN : PhPut(1, up)
    \/ \E up \in BOOLEAN : PhRegister(1, up)
    \/ \E up \in BOOLEAN : PhCompensate(1, up)
    \/ \E k \in KeyInputs : NativeRemove(1, k)
    \/ \E up \in BOOLEAN : RmNative(1, up)
    \/ \E up \in BOOLEAN : RmRegistry(1, up)
    \/ Tick

SpecNative == Init /\ [][NextNative]_vars

\* Stored handle selections whose directories change on disk between the add
\* and a later getFileCount.
DriftSelections == { <<"d1">>, <<"d1", "f1">> }

NextDrift ==
    \/ \E sel \in DriftSelections, m \in PlainMetadata, g \in Keys : Add(1, sel, m, g)
    \/ PhPut(1, TRUE)
    \/ PhRegister(1, TRUE)
    \/ \E next \in Trees : Mutate(next)
    \/ \E k \in KeyInputs, h \in StoreHealth : GetFileCount(1, k, h)

SpecDrift == Init /\ [][NextDrift]_vars

\* Permission probes over stored selections of up to three handles, each
\* probe answering with a state or throwing.
PermissionSelections == { <<"f1">>, <<"d1", "f1", "f2">>, <<"x1">> }
ProbeVectors == [1..3 -> ProbeOutcomes]

NextPerm ==
    \/ \E sel \in PermissionSelections, m \in PlainMetadata, g \in Keys : Add(1, sel, m, g)
    \/ PhPut(1, TRUE)
    \/ PhRegister(1, TRUE)
    \/ \E k \in KeyInputs, o \in ProbeVectors, h \in StoreHealth :
          RequestPermissions(1, k, o, h)

SpecPerm == Init /\ [][NextPerm]_vars

\* The two components' connectors over a database an earlier schema left
\* behind: two callers, open errors, and another context that holds the
\* database open.
NextConn ==
    \/ \E t \in Tasks, c \in Components, op \in {"ensureDb", "storeOp"} : NeedDb(t, c, op)
    \/ \E c \in Components, fault \in BOOLEAN : OpenAttempt(c, fault)
    \/ \E t \in Tasks : DbSettled(t)
    \/ ForeignOpen
    \/ ForeignClose

InitConn == InitData /\ InitComponents /\ InitLegacyStore

SpecConn == InitConn /\ [][NextConn]_vars

\* The dispatcher and the transient backend under one caller: keys are
\* added, expired and removed, with the page's unload event and store
\* failures arriving at any time.
LifeSelections == { <<"d1", "f1">>, <<"x1">>, <<"f1", "x1">>, <<"f1", "j1">> }

NextLife ==
    \/ \E sel \in LifeSelections, m \in PlainMetadata, g \in Keys : Add(1, sel, m, g)
    \/ \E up \in BOOLEAN : PhPut(1, up)
    \/ \E up \in BOOLEAN : PhRegister(1, up)
    \/ \E up \in BOOLEAN : PhCompensate(1, up)
    \/ \E k \in Keys, h \in {"up", "registry-down"} : Remove(1, k, h)
    \/ \E up \in BOOLEAN : RmNative(1, up)
    \/ \E up \in BOOLEAN : RmRegistry(1, up)
    \/ \E e \in {<<>>, <<"x1">>, <<"f1", "j1">>}, m \in PlainMetadata, g \in Keys :
          PersistEntries(1, e, m, g)
    \/ \E h \in {<<>>, <<"f1">>, <<"f1", "x1">>}, m \in PlainMetadata, g \in Keys :
          PersistHandles(1, h, m, g)
    \/ \E k \in Keys, r \in ExpiryReasons : ExpireSession(1, k, r)
    \/ \E r \in ExpiryReasons : ExpireAll(1, r)
    \/ BeforeUnload
    \/ \E k \in Keys : TransientRemove(1, k)

SpecLife == Init /\ [][NextLife]_vars

\* The connector when every settled open request is delivered to the loop
\* that awaits it and a context that blocks an upgrade closes its connection
\* in the end.
FairConn ==
    /\ \A c \in Components : WF_vars(\E fault \in BOOLEAN : OpenAttempt(c, fault))
    /\ \A t \in Tasks : WF_vars(DbSettled(t))
    /\ WF_vars(ForeignClose)

\* One caller of the registry and one of the native backend, side by side.
NextConnPaired ==
    \/ \E op \in {"ensureDb", "storeOp"} : NeedDb(1, "registry", op)
    \/ \E op \in {"ensureDb", "storeOp"} : NeedDb(2, "native", op)
    \/ \E c \in Components, fault \in BOOLEAN : OpenAttempt(c, fault)
    \/ \E t \in Tasks : DbSettled(t)
    \/ ForeignOpen
    \/ ForeignClose

SpecConnFair == InitConn /\ [][NextConnPaired]_vars /\ FairConn

\* ------------------------------------------- withStore, injected opener
\* createRegistry({openDatabase}) and createNativeHandleBackend({openDatabase})
\* take the opener from their options.  What such an opener answers is up to
\* it: a connection that has the partition, one that lacks it, one that is
\* closed by the time a transaction is asked of it, or a rejection.
OpenerAnswers == {"has-store", "lacks-store", "closed", "rejects"}

InjectedOpen(c, answer) ==
    /\ dbPromise[c] = "pending"
    /\ IF answer = "rejects"
       THEN /\ dbPromise' = [dbPromise EXCEPT ![c] = "rejected"]
            /\ opener' = [opener EXCEPT ![c] =
                   [attempt |-> 0, currentVersion |-> DEFAULT_DB_VERSION,
                    error |-> "open-error"]]
            /\ UNCHANGED <<conn, connSeq>>
       ELSE /\ dbPromise' = [dbPromise EXCEPT ![c] = "fulfilled"]
            /\ conn' = [conn EXCEPT ![c] =
                   [id |-> connSeq + 1, version |-> DEFAULT_DB_VERSION,
                    stores |-> IF answer = "lacks-store" THEN {}
                               ELSE {StoreNameOf(c)},
                    open |-> answer # "closed", autoClose |-> FALSE]]
            /\ connSeq' = connSeq + 1
            /\ UNCHANGED opener
    /\ UNCHANGED <<dbVersion, dbStores, foreign, openCalls, openedDb, upgradeQueue,
                   legacy, storeVars, transientVars, envVars, taskVars>>

\* withStore(mode, run) of component c starts: await ensureDb().
WithStore(t, c) ==
    /\ pc[t] = "idle"
    /\ openCalls[c] + MAX_DB_MIGRATION_ATTEMPTS <= MaxOpenCalls + 1
    /\ ensureDb(c)
    /\ pc' = [pc EXCEPT ![t] = "ws_transaction"]
    /\ call' = [call EXCEPT ![t] =
           [op |-> "withStore", key |-> Undefined, comp |-> c, retryCount |-> 0,
            closed |-> <<>>]]
    /\ res' = [res EXCEPT ![t] = NoResult]
    /\ UNCHANGED <<dbVersion, dbStores, foreign, connSeq, openedDb, upgradeQueue, legacy,
                   storeVars, transientVars, envVars>>

\* db.transaction(storeName, mode) on a connection: the error it throws, if any.
transactionError(connection, storeName) ==
    IF ~connection.open THEN "InvalidStateError"
    ELSE IF storeName \notin connection.stores THEN "NotFoundError"
    ELSE Undefined

mayRetryAnyError(error, retryCount) ==
    retryCount + 1 < MAX_DB_MIGRATION_ATTEMPTS

\* The condition of the catch block of withStore.
mayRetry(error, retryCount) ==
    error = "NotFoundError" /\ retryCount + 1 < MAX_DB_MIGRATION_ATTEMPTS

\* The awaited dbPromise has settled: withStore asks the connection for a
\* transaction; on NotFoundError with budget left it forgets the cached
\* promise, closes the connection and calls itself, which opens again; any
\* other error is thrown; with a transaction it runs the operation, which
\* commits (up) or fails.
WsTransaction(t, up) ==
    LET c == call[t].comp
        db == conn[c]
        error == transactionError(db, StoreNameOf(c))
        outcome(fields) ==
            [op |-> "withStore", key |-> Undefined, comp |-> c,
             retryCount |-> call[t].retryCount, closed |-> call[t].closed] @@ fields
    IN
    /\ pc[t] = "ws_transaction"
    /\ dbPromise[c] \in {"fulfilled", "rejected"}
    /\ IF dbPromise[c] = "rejected"
       THEN /\ Finish(t, outcome([threw |-> TRUE, error |-> opener[c].error]))
            /\ UNCHANGED <<dbPromise, opener, conn, openCalls>>
       ELSE IF error = Undefined
       THEN /\ Finish(t, IF up THEN outcome([ok |-> TRUE, connection |-> db.id])
                         ELSE outcome([threw |-> TRUE, error |-> "transaction-failed"]))
            /\ UNCHANGED <<dbPromise, opener, conn, openCalls>>
       ELSE IF mayRetry(error, call[t].retryCount)
       THEN /\ dbPromise' = [dbPromise EXCEPT ![c] = "pending"]
            /\ opener' = [opener EXCEPT ![c] =
                   [attempt |-> 0, currentVersion |-> DEFAULT_DB_VERSION]]
            /\ openCalls' = [openCalls EXCEPT ![c] = @ + 1]
            /\ conn' = [conn EXCEPT ![c] = closeDatabase(db)]
            /\ call' = [call EXCEPT ![t].retryCount = @ + 1,
                                    ![t].closed = Append(@, db.id)]
            /\ UNCHANGED <<pc, res>>
       ELSE /\ Finish(t, outcome([threw |-> TRUE, error |-> error]))
            /\ UNCHANGED <<dbPromise, opener, conn, openCalls>>
    /\ UNCHANGED <<dbVersion, dbStores, foreign, connSeq, openedDb, upgradeQueue, legacy,
                   storeVars, transientVars, envVars>>

\* One caller of the registry and one of the native backend, each over an
\* injected opener.
NextRetry ==
    \/ WithStore(1, "registry")
    \/ WithStore(2, "native")
    \/ \E c \in Components, a \in OpenerAnswers : InjectedOpen(c, a)
    \/ \E t \in Tasks, up \in BOOLEAN : WsTransaction(t, up)

SpecRetry == Init /\ [][NextRetry]_vars

\* add under one caller, with every way it can fail: no selection, a
\* selection that fails validation, a directory whose iteration throws, and
\* store transactions that fail.
AddSelections == { <<>>, <<"d1">>, <<"x1">>, <<"f1", "j1">> }
AddTrees == { InitialTree, [d1 |-> <<"f1", "d2">>, d2 |-> <<"f2", IteratorThrows>>] }

NextAdd ==
    \/ \E sel \in AddSelections, m \in PlainMetadata, g \in Keys : Add(1, sel, m, g)
    \/ \E up \in BOOLEAN : PhPut(1, up)
    \/ \E up \in BOOLEAN : PhRegister(1, up)
    \/ \E up \in BOOLEAN : PhCompensate(1, up)
    \/ \E next \in AddTrees : Mutate(next)

SpecAdd == Init /\ [][NextAdd]_vars

\* Selections of native handles added over directory trees of several
\* shapes, one of them a directory of three files and a subdirectory of two.
CountSelections == { <<"d1">>, <<"d1", "f1">>, <<"f2", "d2">>, <<"d2", "d1">> }
CountTrees ==
    { InitialTree,
      [d1 |-> <<"f1", "f2", "f1", "d2">>, d2 |-> <<"f1", "f2">>],
      [d1 |-> <<"f1">>, d2 |-> <<"f2">>],
      [d1 |-> <<>>, d2 |-> <<"d1", "f2">>] }

NextCount ==
    \/ \E sel \in CountSelections, m \in PlainMetadata, g \in Keys : Add(1, sel, m, g)
    \/ PhPut(1, TRUE)
    \/ PhRegister(1, TRUE)
    \/ \E next \in CountTrees : Mutate(next)

SpecCount == Init /\ [][NextCount]_vars

\* ------------------------------------ transient backend, by identity
\* The arrays and objects of the transient backend as the objects they are:
\* mem.heap holds each one's value, mem.owned the ones a stored session
\* consists of, mem.held the ones the caller has a reference to and where it
\* got it from.
Used == Cardinality({r \in Refs : mem.heap[r] # Free})
ArrayOf(items) == [kind |-> "array", items |-> items]
CountsOf(counts) == [kind |-> "counts", counts |-> counts]
ExpiresOf(reason) == [kind |-> "expires", reason |-> reason]
OwnedRefs ==
    UNION {{mem.owned[k].entries, mem.owned[k].counts, mem.owned[k].expires} :
              k \in {j \in Keys : mem.owned[j] # NoRecord}}

\* persistEntries(rawEntries, {key}) with an array the caller made: entries
\* is that array, storedEntries = entries.map(...) a new one, counts and
\* expires new objects; the result carries counts itself and a copy of
\* expires.
persistEntriesByIdentity(key, items) ==
    LET input == Used + 1
        storedEntries == Used + 2
        counts == Used + 3
        expires == Used + 4
        resultExpires == Used + 5
    IN
    /\ Used + 5 <= MaxRefs
    /\ persistEntriesValid(items)
    /\ mem' = [heap |-> [r \in Refs |->
                   IF r \in {input, storedEntries} THEN ArrayOf(items)
                   ELSE IF r = counts THEN CountsOf(summarizeTransientEntries(items))
                   ELSE IF r \in {expires, resultExpires} THEN ExpiresOf("page-unload")
                   ELSE mem.heap[r]],
               held |-> mem.held \cup
                   {[ref |-> input, from |-> "input"],
                    [ref |-> counts, from |-> "persistEntries"],
                    [ref |-> resultExpires, from |-> "persistEntries"]},
               owned |-> [mem.owned EXCEPT ![key] =
                   [entries |-> storedEntries, counts |-> counts, expires |-> expires]]]
    /\ UNCHANGED <<tree, clock, walk, tabs, storeVars, transientVars, taskVars, connVars>>

getSessionLive(session, base) == session

\* The arrays and objects getSession(key) answers with: session.entries.slice(),
\* {...session.counts} and {...session.expires}, each a new one.
getSessionCopies(session, base) ==
    [entries |-> base + 1, counts |-> base + 2, expires |-> base + 3]

getSessionByIdentity(key) ==
    LET session == mem.owned[key]
        answer == getSessionCopies(session, Used)
    IN
    /\ session # NoRecord
    /\ Used + 3 <= MaxRefs
    /\ mem' = [mem EXCEPT
           !.heap = [r \in Refs |->
               IF r = answer.entries THEN mem.heap[session.entries]
               ELSE IF r = answer.counts THEN mem.heap[session.counts]
               ELSE IF r = answer.expires THEN mem.heap[session.expires]
               ELSE mem.heap[r]],
           !.held = @ \cup {[ref |-> answer.entries, from |-> "getSession"],
                            [ref |-> answer.counts, from |-> "getSession"],
                            [ref |-> answer.expires, from |-> "getSession"]}]
    /\ UNCHANGED <<tree, clock, walk, tabs, storeVars, transientVars, taskVars, connVars>>

\* getEntries(key): session.entries.slice().
getEntriesByIdentity(key) ==
    LET session == mem.owned[key] IN
    /\ session # NoRecord
    /\ Used + 1 <= MaxRefs
    /\ mem' = [mem EXCEPT
           !.heap = [@ EXCEPT ![Used + 1] = mem.heap[session.entries]],
           !.held = @ \cup {[ref |-> Used + 1, from |-> "getEntries"]}]
    /\ UNCHANGED <<tree, clock, walk, tabs, storeVars, transientVars, taskVars, connVars>>

\* The arrays the caller passes to persistEntries.
AliasEntries == { <<"x1">>, <<"x1", "e1">> }

\* What the caller makes of an array or object it holds and has not touched
\* yet: push, remove or reassign an element, reassign a field.
Tampered(value) ==
    IF value.kind = "array"
    THEN IF value.items \in AliasEntries
         THEN {ArrayOf(Append(value.items, "j1")),
               ArrayOf(Tail(value.items)),
               ArrayOf([value.items EXCEPT ![1] = "d1"])}
         ELSE {}
    ELSE IF value.kind = "counts"
    THEN IF value.counts.files = 7 THEN {}
         ELSE {CountsOf([value.counts EXCEPT !.files = 7])}
    ELSE IF value.kind = "expires"
    THEN IF value.reason = "tampered" THEN {} ELSE {ExpiresOf("tampered")}
    ELSE {}

CallerMutates(ref, value) ==
    /\ \E h \in mem.held : h.ref = ref
    /\ value \in Tampered(mem.heap[ref])
    /\ value # mem.heap[ref]
    /\ mem' = [mem EXCEPT !.heap[ref] = value]
    /\ UNCHANGED <<tree, clock, walk, tabs, storeVars, transientVars, taskVars, connVars>>

\* What getSession, getEntries and getFileCount observe for a key.
Observed(k) ==
    LET session == mem.owned[k] IN
    IF session = NoRecord THEN NoRecord
    ELSE [entries |-> mem.heap[session.entries].items,
          counts |-> mem.heap[session.counts],
          expires |-> mem.heap[session.expires],
          fileCount |-> summarizeTransientEntries(mem.heap[session.entries].items)]

NextAlias ==
    \/ \E k \in Keys, items \in AliasEntries : persistEntriesByIdentity(k, items)
    \/ \E k \in Keys : getSessionByIdentity(k)
    \/ \E k \in Keys : getEntriesByIdentity(k)
    \/ \E r \in Refs : \E v \in Tampered(mem.heap[r]) : CallerMutates(r, v)

SpecAlias == Init /\ [][NextAlias]_vars

\* Two callers of the native backend on a working store: one persists
\* handles under a key of its choosing, the other removes keys, their store
\* steps interleaving freely.
RaceHandleLists == { <<"f1">>, <<"d1">> }
RaceMetadata ==
    [key : Keys, createdAt : {NoTime}, updatedAt : {NoTime}, storageType : {Undefined}]

NextRace ==
    \/ \E h \in RaceHandleLists, m \in RaceMetadata, g \in Keys : PersistHandles(1, h, m, g)
    \/ PhPut(1, TRUE)
    \/ PhRegister(1, TRUE)
    \/ \E k \in Keys : NativeRemove(2, k)
    \/ RmNative(2, TRUE)
    \/ RmRegistry(2, TRUE)

SpecRace == Init /\ [][NextRace]_vars

\* The dispatcher over keys of every storage type: native and transient
\* selections are added, keys are registered without a storage type, every
\* operation that depends on the backend is called, and the second step of
\* a remove can fail.
ResolveSelections == { <<"f1">>, <<"x1">> }

NextResolve ==
    \/ \E sel \in ResolveSelections, m \in PlainMetadata, g \in Keys : Add(1, sel, m, g)
    \/ PhPut(1, TRUE)
    \/ PhRegister(1, TRUE)
    \/ \E m \in Metadata(Keys, {NoTime}, {Undefined}) : RegisterKey(1, m, m.key, TRUE)
    \/ \E k \in Keys : Exists(1, k, FALSE, NoProbes, "up")
    \/ \E k \in Keys : GetFileCount(1, k, "up")
    \/ \E k \in Keys : RequestPermissions(1, k, NoProbes, "up")
    \/ \E k \in Keys : Remove(1, k, "up")
    \/ RmNative(1, TRUE)
    \/ \E up \in BOOLEAN : RmRegistry(1, up)

SpecResolve == Init /\ [][NextResolve]_vars

\* ------------------------------------------- count derivation, by steps
\* summarizeHandles as the steps it takes: one step per handle of the
\* selection, per entry an iterator yields, and per return of
\* summarizeDirectoryChildren.  walk.stack holds the activations of
\* summarizeDirectoryChildren, each with the entries its iterator yields, its
\* position and its own summary; walk.iterated lists the directory handles
\* an iterator was made for, in order.
seenHasNever(seen, handle) == FALSE

\* context.seen.has(handle)
seenHas(seen, handle) == handle \in seen

Activation(directoryHandle) ==
    [dir |-> directoryHandle, children |-> tree[directoryHandle], n |-> 1,
     files |-> 0, directories |-> 0]

\* const summary = {files: 0, directories: 0, handles: 0}; const context =
\* {seen: new Set()}
StartWalk(handles) ==
    /\ walk.status # "walking"
    /\ walk' = [status |-> "walking", handles |-> handles, i |-> 1,
                stack |-> <<>>, seen |-> {}, iterated |-> <<>>,
                summary |-> [files |-> 0, directories |-> 0, handles |-> 0],
                at |-> tree, stable |-> TRUE]
    /\ UNCHANGED <<tree, clock, mem, tabs, storeVars, transientVars, taskVars, connVars>>

\* One turn of the for loop of summarizeHandles.
WalkTopLevel ==
    LET handle == walk.handles[walk.i]
        next == [walk EXCEPT !.i = @ + 1, !.stable = @ /\ tree = walk.at]
    IN
    IF walk.i > Len(walk.handles)
    THEN [walk EXCEPT !.status = "done", !.stable = @ /\ tree = walk.at]
    ELSE IF ~isFileSystemHandle(handle) THEN next
    ELSE IF ItemKind(handle) = "file"
    THEN [next EXCEPT !.summary.handles = @ + 1, !.summary.files = @ + 1]
    ELSE IF ItemKind(handle) = "directory"
    THEN IF seenHas(walk.seen, handle)
         THEN [next EXCEPT !.summary.handles = @ + 1, !.summary.directories = @ + 1]
         ELSE [next EXCEPT !.summary.handles = @ + 1, !.summary.directories = @ + 1,
                           !.seen = @ \cup {handle},
                           !.iterated = Append(@, handle),
                           !.stack = <<Activation(handle)>>]
    ELSE [next EXCEPT !.summary.handles = @ + 1]

\* summarizeDirectoryChildren returns: its summary is added to the caller's.
WalkReturn ==
    LET depth == Len(walk.stack)
        nested == walk.stack[depth]
        popped == SubSeq(walk.stack, 1, depth - 1)
    IN
    IF depth = 1
    THEN [walk EXCEPT !.stack = popped,
                      !.summary.files = @ + nested.files,
                      !.summary.directories = @ + nested.directories]
    ELSE [walk EXCEPT !.stack = [popped EXCEPT
                          ![depth - 1].files = @ + nested.files,
                          ![depth - 1].directories = @ + nested.directories]]

\* One turn of the for-await loop of the innermost summarizeDirectoryChildren.
WalkEntry ==
    LET depth == Len(walk.stack)
        frame == walk.stack[depth]
        entry == frame.children[frame.n]
        next == [walk EXCEPT !.stack[depth].n = @ + 1]
    IN
    IF frame.n > Len(frame.children) THEN WalkReturn
    ELSE IF entry = IteratorThrows THEN [walk EXCEPT !.status = "failed"]
    ELSE IF ~isFileSystemHandle(entry) THEN next
    ELSE IF ItemKind(entry) = "file"
    THEN [next EXCEPT !.stack[depth].files = @ + 1]
    ELSE IF ItemKind(entry) = "directory"
    THEN IF seenHas(walk.seen, entry)
         THEN [next EXCEPT !.stack[depth].directories = @ + 1]
         ELSE [next EXCEPT !.stack[depth].directories = @ + 1,
                           !.seen = @ \cup {entry},
                           !.iterated = Append(@, entry),
                           !.stack = Append(@, Activation(entry))]
    ELSE next

WalkStep ==
    /\ walk.status = "walking"
    /\ walk' = IF walk.stack = <<>> THEN WalkTopLevel
               ELSE [WalkEntry EXCEPT !.stable = @ /\ tree = walk.at]
    /\ UNCHANGED <<tree, clock, mem, tabs, storeVars, transientVars, taskVars, connVars>>

\* Selections and directory graphs with a directory listed twice, yielded
\* twice, yielding itself, and two directories yielding each other.
WalkSelections == { <<"d1">>, <<"d1", "d1">>, <<"f1", "d2", "d1">> }
WalkTrees ==
    { InitialTree,
      [d1 |-> <<"f1", "d2", "d2">>, d2 |-> <<"f2">>],
      [d1 |-> <<"d1", "f1">>, d2 |-> <<>>],
      [d1 |-> <<"f1", "d2">>, d2 |-> <<"d1", "f2">>],
      [d1 |-> <<"f1", "d2">>, d2 |-> <<"f2", IteratorThrows>>] }

NextWalk ==
    \/ \E handles \in WalkSelections : StartWalk(handles)
    \/ WalkStep
    \/ \E next \in WalkTrees : Mutate(next)

SpecWalk == Init /\ [][NextWalk]_vars

\* The traversal is an async function whose every await settles: each
\* iterator yields its entries and ends.
SpecWalkFair == SpecWalk /\ WF_vars(WalkStep)

\* ------------------------------------------------- browser identity module
\* resolveTabIdentity in two tabs that share localStorage and a
\* BroadcastChannel.  A message posted on the channel is queued for every
\* other channel object that is open at that moment and handed to it later;
\* a channel that has been closed hands nothing on.  tabs.overlapped records
\* that the second tab started while the first was listening, tabs.dropped
\* that a window ended with a message still queued.
HELLO == "HELLO"
RENAMED == "RENAMED"
Nonces == {"n1", "n2", "n3"}
NonceRank(nonce) == CASE nonce = "n1" -> 1 [] nonce = "n2" -> 2 [] nonce = "n3" -> 3

\* rng() for a browserId and for a regenerated tabId: a value no other call
\* returns.
FreshBrowserId(n) == "browser-" \o n
FreshTabId(n) == "tab-" \o n

\* meKey > otherKey for `${tabId}:${nonce}` strings with the same tabId: the
\* common prefix decides nothing, the nonces are compared.
iWin(myNonce, otherNonce) == NonceRank(myNonce) > NonceRank(otherNonce)

Listening == {n \in TabNames : tabs.tab[n].status = "listening"}

\* messaging.postMessage(msg): to every other open channel.
postMessage(inbox, sender, msg) ==
    [n \in TabNames |->
        IF n # sender /\ n \in Listening THEN Append(inbox[n], msg) ELSE inbox[n]]

\* resolveTabIdentity up to its await: browserId from localStorage or new,
\* tabId from sessionStorage, a nonce, the channel, the subscription, HELLO.
StartHandshake(n, nonce) ==
    LET browserId == IF tabs.localBrowserId = "unset" THEN FreshBrowserId(n)
                     ELSE tabs.localBrowserId
        tabId == tabs.tab[n].sessionTabId
    IN
    /\ tabs.tab[n].status = "unstarted"
    /\ \A o \in TabNames \ {n} : tabs.tab[o].nonce # nonce
    /\ tabs' = [tab |-> [tabs.tab EXCEPT ![n] =
                    [status |-> "listening", sessionTabId |-> tabId,
                     browserId |-> browserId, currentTabId |-> tabId,
                     nonce |-> nonce, didRegenerateTabId |-> FALSE]],
                inbox |-> postMessage(tabs.inbox, n,
                              [type |-> HELLO, tabId |-> tabId, nonce |-> nonce]),
                localBrowserId |-> browserId,
                overlapped |-> Listening # {},
                dropped |-> tabs.dropped]
    /\ UNCHANGED <<tree, clock, mem, walk, storeVars, transientVars, taskVars, connVars>>

handlerNeverRenames(me, message) == FALSE

\* The onMessage handler's test: a HELLO for my tabId from another nonce that
\* beats me, while I have not regenerated yet.
handlerRenames(me, message) ==
    /\ message.type = HELLO
    /\ message.tabId = me.currentTabId
    /\ message.nonce # me.nonce
    /\ ~iWin(me.nonce, message.nonce)
    /\ ~me.didRegenerateTabId

\* The channel hands the tab its next message.
Deliver(n) ==
    LET me == tabs.tab[n]
        message == Head(tabs.inbox[n])
        rest == [tabs.inbox EXCEPT ![n] = Tail(@)]
    IN
    /\ n \in Listening
    /\ tabs.inbox[n] # <<>>
    /\ tabs' =
         IF handlerRenames(me, message)
         THEN [tabs EXCEPT
                  !.tab[n].currentTabId = FreshTabId(n),
                  !.tab[n].sessionTabId = FreshTabId(n),
                  !.tab[n].didRegenerateTabId = TRUE,
                  !.inbox = postMessage(rest, n,
                      [type |-> RENAMED, tabId |-> FreshTabId(n), nonce |-> me.nonce])]
         ELSE [tabs EXCEPT !.inbox = rest]
    /\ UNCHANGED <<tree, clock, mem, walk, storeVars, transientVars, taskVars, connVars>>

\* The collision window ends: unsubscribe(), messaging.dispose(), return.
EndWindow(n) ==
    /\ n \in Listening
    /\ tabs' = [tabs EXCEPT !.tab[n].status = "finished", !.inbox[n] = <<>>,
                            !.dropped = @ \/ tabs.inbox[n] # <<>>]
    /\ UNCHANGED <<tree, clock, mem, walk, storeVars, transientVars, taskVars, connVars>>

NextTabs ==
    \/ \E n \in TabNames, nonce \in Nonces : StartHandshake(n, nonce)
    \/ \E n \in TabNames : Deliver(n)
    \/ \E n \in TabNames : EndWindow(n)

SpecTabs == Init /\ [][NextTabs]_vars

\* ------------------------------------------------------------------ claims
\* A result that stands for a rejected promise or a thrown error.
Raised(r) == "threw" \in DOMAIN r
Returned(r, op) == r.op = op /\ ~Raised(r)

\* A key that was never added or is removed again: no registry record, no
\* native record, no live session, no tombstone.
Absent(k) ==
    /\ registryStore[k] = NoRecord
    /\ nativeStore[k] = NoRecord
    /\ k \notin SessionKeys
    /\ expiredSessions[k] = NoRecord

\* C2, as the claim states it: every getStorageType that returns is ok with
\* 'native-handle' or 'transient-session', or is a not-found result.
C2_OnlyTwoStorageTypes ==
    \A t \in Tasks :
        Returned(res[t], "getStorageType") =>
            \/ res[t].ok /\ res[t].storageType \in
                   {NATIVE_HANDLE_STORAGE_TYPE, TRANSIENT_STORAGE_TYPE}
            \/ ~res[t].ok /\ res[t].reason # Undefined

\* C2, amended: getStorageType(key) reports exactly one owner.  With a
\* registry record it is ok with the storage type that record holds, which is
\* 'native-handle' after add and 'uninitialized' after a plain
\* registry.registerKey(key), whether or not a session lives under the key;
\* with a live session and no registry record it is ok with
\* 'transient-session'; otherwise it is a not-found result with a reason.
C2_StorageTypeFollowsOwner ==
    \A k \in KeyInputs :
        LET r == getStorageTypeResult(k) IN
        IF k = "" THEN ~r.ok /\ r.reason = "missing-key"
        ELSE IF registryStore[k] # NoRecord
        THEN /\ r.ok /\ r.source = "registry"
             /\ r.storageType = registryStore[k].storageType
             /\ r.storageType \in {NATIVE_HANDLE_STORAGE_TYPE, DEFAULT_STORAGE_TYPE}
        ELSE IF k \in SessionKeys
        THEN r.ok /\ r.source = "transient-session"
                  /\ r.storageType = TRANSIENT_STORAGE_TYPE
        ELSE ~r.ok /\ r.reason \in {"unknown-key", "transient-expired"}

\* A key registered by hand that also has a live session, and getStorageType
\* answered for it with the registry's 'uninitialized'.
C2_Witness ==
    /\ Returned(res[1], "getStorageType")
    /\ res[1].ok
    /\ res[1].storageType = DEFAULT_STORAGE_TYPE
    /\ res[1].key \in SessionKeys
    /\ registryStore[res[1].key] # NoRecord

\* C3: remove(key) of a key that is absent returns a result that is not ok
\* and carries a reason, never raises, and changes neither the registry, the
\* native store, the sessions nor the tombstones.
C3_RemoveAbsentIsQuiet ==
    [][\A k \in Keys :
          (/\ Absent(k)
           /\ pc[1] = "idle"
           /\ res'[1] # res[1]
           /\ res'[1].op = "remove"
           /\ res'[1].key = k)
          => /\ ~Raised(res'[1])
             /\ ~res'[1].ok
             /\ res'[1].reason = "unknown-key"
             /\ UNCHANGED <<storeVars, sessions, expiredSessions>>]_vars

\* C6: add routes a non-empty batch to the native backend exactly when every
\* item is handle-shaped and otherwise hands the whole batch to the transient
\* backend; a step of a native add never touches the sessions or tombstones,
\* a transient add never touches the durable store, and one add creates at
\* most one key.
C6_AddRoutesWholeBatch ==
    [][/\ (pc[1] = "idle" /\ res'[1] # res[1] /\ res'[1].op = "add"
             /\ ~res'[1].ok /\ res'[1].reason = "storage-failure"
             /\ res'[1].error = "traversal-error")
          => /\ isPureNativeSelection(res'[1].input)
             /\ UNCHANGED <<storeVars, transientVars>>
       /\ (pc[1] = "idle" /\ pc'[1] = "ph_put" /\ call'[1].via = "add")
          => /\ \A n \in 1..Len(call'[1].input) : isFileSystemHandle(call'[1].input[n])
             /\ Len(call'[1].input) > 0
             /\ call'[1].record.handles = call'[1].input
             /\ UNCHANGED <<storeVars, transientVars>>
       /\ (pc[1] = "idle" /\ res'[1] # res[1] /\ res'[1].op = "add"
             /\ Len(res'[1].input) > 0
             /\ ~(~res'[1].ok /\ res'[1].error = "traversal-error"))
          => /\ \E n \in 1..Len(res'[1].input) : ~isFileSystemHandle(res'[1].input[n])
             /\ UNCHANGED storeVars
             /\ pc'[1] = "idle"
             /\ IF res'[1].ok
                THEN /\ res'[1].storageType = TRANSIENT_STORAGE_TYPE
                     /\ SessionKeys' = SessionKeys \cup {res'[1].key}
                     /\ \A k \in Keys :
                            IF k = res'[1].key
                            THEN /\ getSession(k)' # NoRecord
                                 /\ getSession(k)'.entries = res'[1].input
                            ELSE /\ getSession(k)' = getSession(k)
                                 /\ expiredSessions'[k] = expiredSessions[k]
                ELSE UNCHANGED <<sessions, expiredSessions>>
       /\ (pc[1] \in {"ph_put", "ph_register", "ph_compensate"} /\ pc'[1] # pc[1])
          => /\ UNCHANGED transientVars
             /\ \A k \in Keys \ {call[1].key} :
                    /\ registryStore'[k] = registryStore[k]
                    /\ nativeStore'[k] = nativeStore[k]
             /\ (pc'[1] = "idle" /\ res'[1].ok) =>
                    /\ res'[1].storageType = NATIVE_HANDLE_STORAGE_TYPE
                    /\ nativeStore'[call[1].key].handles = call[1].input
                    /\ registryStore'[call[1].key].storageType = NATIVE_HANDLE_STORAGE_TYPE
      ]_vars

\* A mixed batch went to the transient backend whole while the durable store
\* holds nothing under its key.
C6_Witness ==
    /\ Returned(res[1], "add")
    /\ res[1].ok
    /\ res[1].input = <<"f1", "x1">>
    /\ res[1].storageType = TRANSIENT_STORAGE_TYPE
    /\ res[1].key \in SessionKeys
    /\ SessionOf(res[1].key).entries = <<"f1", "x1">>
    /\ nativeStore[res[1].key] = NoRecord
    /\ registryStore[res[1].key] = NoRecord

\* What exists(key) answers for a key with a live session and for a key whose
\* session the page teardown turned into a tombstone.
ExistsTracksSession(k) ==
    LET r == existsResult(k, FALSE, NoProbes) IN
    /\ k \in SessionKeys => r.ok /\ r.exists
    /\ (k \notin SessionKeys /\ expiredSessions[k] # NoRecord) =>
           /\ ~r.exists
           /\ r.reason = "transient-expired"

\* A tombstone goes away only when a remove clears it or the key is added again.
TombstoneStays(k) ==
    (expiredSessions[k] # NoRecord /\ expiredSessions'[k] = NoRecord) =>
        \/ k \in SessionKeys'
        \/ res'[1].op \in {"remove", "transientRemove"} /\ res'[1].key = k

\* An add of a selection that is not all handles answers 'transient-session'.
AddAnswersTransient ==
    \A t \in Tasks :
        (Returned(res[t], "add") /\ res[t].ok /\ ~isPureNativeSelection(res[t].input))
            => res[t].storageType = TRANSIENT_STORAGE_TYPE

\* C9, as the claim states it: for every key, exists is true while its
\* session is active and {exists: false, 'transient-expired'} once it expired.
C9_ExistsTracksEverySession ==
    \A k \in Keys : ExistsTracksSession(k)

\* C9, amended: a selection that is not all handles is stored through add as
\* 'transient-session'; for a key the registry holds no record of, exists is
\* true while the session is active, and after the page teardown (or any
\* expiry) it is {exists: false, reason: 'transient-expired'} for as long as
\* the tombstone is there, which is until the key is removed or added again.
C9_ExistsTracksUnregisteredSession ==
    /\ [](AddAnswersTransient /\
          \A k \in Keys : registryStore[k] = NoRecord => ExistsTracksSession(k))
    /\ [][\A k \in Keys : TombstoneStays(k)]_vars

\* The page was torn down under a session added through add, and exists
\* answered transient-expired for its key.
C9_Witness ==
    /\ Returned(res[1], "exists")
    /\ ~res[1].exists
    /\ res[1].reason = "transient-expired"
    /\ expiredSessions[res[1].key] # NoRecord
    /\ expiredSessions[res[1].key].reason = "page-unload"
    /\ registryStore[res[1].key] = NoRecord

\* C1, as the claim states it: after a persistHandles that failed at the
\* registration, the native store holds no record under the key and the
\* registry entry is the one from before the call.
C1_FailedCallLeavesNothing ==
    \A t \in Tasks :
        (res[t].op = "persistHandles" /\ Raised(res[t])
           /\ res[t].error = "registration-failed")
        => /\ nativeStore[res[t].key] = NoRecord
           /\ registryStore[res[t].key] = res[t].before.registry

\* C1, amended: persistHandles puts the native record first and registers the
\* key second; when the registration fails it attempts to delete the native
\* record and rejects with the registration error.  After the failed call the
\* registry holds no entry written by it, and the native store holds no
\* record under the key provided the compensating delete itself succeeded.
C1_SagaCompensates ==
    \A t \in Tasks :
        (res[t].op = "persistHandles" /\ res[t].log # <<>>) =>
            LET r == res[t] IN
            /\ r.log \in { <<"put-native-failed">>,
                           <<"put-native", "put-registry">>,
                           <<"put-native", "register-failed", "delete-native">>,
                           <<"put-native", "register-failed", "delete-native-failed">> }
            /\ ("register-failed" \in {r.log[n] : n \in 1..Len(r.log)})
                  <=> (Raised(r) /\ r.error = "registration-failed")
            /\ (Raised(r) /\ r.error = "registration-failed") =>
                  /\ registryStore[r.key] = r.before.registry
                  /\ r.log[Len(r.log)] = "delete-native" => nativeStore[r.key] = NoRecord
            /\ r.log = <<"put-native", "put-registry">> =>
                  /\ ~Raised(r) /\ r.ok
                  /\ nativeStore[r.key] # NoRecord
                  /\ registryStore[r.key] # NoRecord

\* A registration failed, the compensating delete went through, and the key
\* is in neither partition.
C1_Witness ==
    /\ res[1].op = "persistHandles"
    /\ Raised(res[1])
    /\ res[1].log = <<"put-native", "register-failed", "delete-native">>
    /\ nativeStore[res[1].key] = NoRecord
    /\ registryStore[res[1].key] = NoRecord

\* Files and directories counted by walking every path below the entries,
\* without the traversal's bookkeeping.
RECURSIVE CountUnder(_, _, _)
CountUnder(entries, kind, tr) ==
    IF entries = <<>> THEN 0
    ELSE LET e == Head(entries) IN
         (IF ItemKind(e) = kind THEN 1 ELSE 0)
         + (IF e \in Directories THEN CountUnder(tr[e], kind, tr) ELSE 0)
         + CountUnder(Tail(entries), kind, tr)

Recount(handles, tr) ==
    [files |-> CountUnder(handles, "file", tr),
     directories |-> CountUnder(handles, "directory", tr),
     handles |-> Len(handles)]

\* C7: after a persistHandles(h) that succeeded, getRecord(key) has the
\* handles of h in their order, its three counts are the returned counts and
\* those of an independent recount, and the registry record is 'native-handle'
\* with the createdAt and updatedAt of the native record.
C7_RecordRoundTrips ==
    \A t \in Tasks :
        (Returned(res[t], "persistHandles") /\ res[t].ok) =>
            LET r == res[t]
                record == nativeGetRecord(r.key)
                pointer == registryStore[r.key]
            IN /\ record # NoRecord
               /\ record.handles = r.input
               /\ [files |-> record.fileCount,
                   directories |-> record.directoryCount,
                   handles |-> record.handleCount] = r.counts
               /\ r.counts = Recount(r.input, tree)
               /\ r.counts = summarizeHandles(r.input, tree)
               /\ pointer # NoRecord
               /\ pointer.storageType = NATIVE_HANDLE_STORAGE_TYPE
               /\ pointer.createdAt = record.createdAt
               /\ pointer.updatedAt = record.updatedAt
               /\ r.createdAt = record.createdAt
               /\ r.updatedAt = record.updatedAt

\* A directory and a file were persisted with a caller's updatedAt while the
\* clock moved on during the call.
C7_Witness ==
    /\ Returned(res[1], "persistHandles")
    /\ res[1].ok
    /\ res[1].input = <<"d1", "f1">>
    /\ res[1].counts = [files |-> 3, directories |-> 2, handles |-> 2]
    /\ nativeStore[res[1].key].createdAt < clock
    /\ nativeStore[res[1].key].updatedAt # nativeStore[res[1].key].createdAt

\* C8: for a key stored in the native backend, getFileCount returns the
\* counts a fresh traversal of the stored handles finds, with partial true and
\* reason 'entries-missing' exactly when the fresh file count is below the
\* stored fileCount or the fresh directory count is below the stored
\* directoryCount, and otherwise partial false and no reason.
C8_PartialIffFewerEntries ==
    \A k \in Keys :
        (/\ registryStore[k] # NoRecord
         /\ registryStore[k].storageType = NATIVE_HANDLE_STORAGE_TYPE
         /\ nativeStore[k] # NoRecord
         /\ ~summarizeHandlesThrows(nativeStore[k].handles, tree)) =>
            LET r == getFileCountResult(k)
                stored == nativeStore[k]
                fresh == Recount(stored.handles, tree)
                fewer == \/ fresh.files < stored.fileCount
                         \/ fresh.directories < stored.directoryCount
            IN /\ r.ok
               /\ r.counts = fresh
               /\ r.partial = fewer
               /\ r.reason = IF fewer THEN "entries-missing" ELSE Undefined

\* getFileCount answered partial for a selection that lost a directory and
\* no file.
C8_Witness ==
    /\ Returned(res[1], "getFileCount")
    /\ res[1].ok
    /\ res[1].partial
    /\ res[1].reason = "entries-missing"
    /\ nativeStore[res[1].key] # NoRecord
    /\ res[1].counts.files >= nativeStore[res[1].key].fileCount
    /\ res[1].counts.directories < nativeStore[res[1].key].directoryCount

\* C10: when requestPermissions probes the handles of a record, every stored
\* handle is probed once and in stored order, a probe that throws counts as
\* 'denied' for its handle and changes no other handle's state, the call
\* returns a result, the aggregate is 'denied' when a probe threw, and
\* counts.handles is the number of stored handles.
C10_ThrowingProbeIsDenied ==
    \A t \in Tasks :
        (res[t].op = "requestPermissions" /\ "results" \in DOMAIN res[t]) =>
            LET r == res[t]
                handles == nativeStore[r.key].handles
                idx == 1..Len(handles)
            IN /\ ~Raised(r)
               /\ r.probed = handles
               /\ Len(r.results) = Len(handles)
               /\ \A n \in idx :
                      r.results[n] = IF r.outcomes[n] = "throw" THEN "denied"
                                     ELSE r.outcomes[n]
               /\ (\E n \in idx : r.outcomes[n] = "throw") =>
                      r.state = "denied" /\ ~r.ok
               /\ r.ok = (r.state = "granted")
               /\ r.counts.handles = Len(handles)

\* Of three stored handles the second one's probe threw and the others were
\* granted.
C10_Witness ==
    /\ res[1].op = "requestPermissions"
    /\ "results" \in DOMAIN res[1]
    /\ res[1].outcomes = <<"granted", "throw", "granted">>
    /\ res[1].results = <<"granted", "denied", "granted">>
    /\ res[1].state = "denied"
    /\ res[1].counts.handles = 3

\* A connector call that handed its caller a connection.
Connected(r) == r.op \in {"ensureDb", "storeOp"} /\ ~Raised(r)

\* C4: over a database found at version V, an operation of a component that
\* returns does so on a connection that has the component's partition, at a
\* version above V when the partition was missing at V, and with every
\* partition that was there at V; the database never loses a partition or
\* goes back in version.
C4_MigrationKeepsPartitions ==
    /\ legacy.stores \subseteq dbStores
    /\ dbVersion >= legacy.version
    /\ \A t \in Tasks :
           Connected(res[t]) =>
               LET r == res[t] IN
               /\ StoreNameOf(r.comp) \in r.stores
               /\ legacy.stores \subseteq r.stores
               /\ r.version >= legacy.version
               /\ StoreNameOf(r.comp) \notin legacy.stores => r.version > legacy.version

\* The native backend's store operation went through on a database found at
\* the highest legacy version with the registry partition only.
C4_Witness ==
    /\ legacy = [version |-> MaxLegacyVersion, stores |-> {DEFAULT_STORE_NAME}]
    /\ Connected(res[1])
    /\ res[1].op = "storeOp"
    /\ res[1].comp = "native"
    /\ res[1].found = "unset"
    /\ res[1].version = MaxLegacyVersion + 1
    /\ res[1].stores = STORE_DEFINITIONS

\* C5: creating a component opens nothing; openDatabase is called once per
\* component, by the first call that needs the connection, and every caller,
\* whether it started the open, joined it in flight or came later, is handed
\* the one connection that open produced.
C5_SingleFlight ==
    /\ \A c \in Components :
           /\ openCalls[c] = IF dbPromise[c] = "unset" THEN 0 ELSE 1
           /\ dbPromise[c] = "unset" => conn[c] = NoRecord
    /\ (\A t \in Tasks : pc[t] = "idle" /\ res[t] = NoResult) =>
           /\ connSeq = 0
           /\ \A c \in Components : openCalls[c] = 0
    /\ \A t \in Tasks :
           Connected(res[t]) => res[t].connection = conn[res[t].comp].id
    /\ \A t, u \in Tasks :
           (Connected(res[t]) /\ Connected(res[u]) /\ res[t].comp = res[u].comp)
               => res[t].connection = res[u].connection

\* One caller started the registry's open, the other joined it while it was
\* pending, and both hold the same connection after one openDatabase call.
C5_Witness ==
    /\ Connected(res[1]) /\ Connected(res[2])
    /\ res[1].comp = "registry" /\ res[2].comp = "registry"
    /\ res[1].found = "unset"
    /\ res[2].found = "pending"
    /\ res[1].connection = res[2].connection
    /\ openCalls["registry"] = 1

\* The per-handle states of a permission result as a set.
StatesOf(r) == {r.results[n] : n \in 1..Len(r.results)}

C12_RegistryThenSessionThenTombstone ==
    \A k \in Keys :
        LET r == resolveStorageLookup(k) IN
        /\ registryStore[k] # NoRecord =>
               /\ r.ok /\ r.source = "registry"
               /\ r.storageType = registryStore[k].storageType
        /\ (registryStore[k] = NoRecord /\ k \in SessionKeys) =>
               /\ r.ok /\ r.source = "transient-session"
               /\ r.storageType = TRANSIENT_STORAGE_TYPE
        /\ (/\ registryStore[k] = NoRecord
            /\ k \notin SessionKeys
            /\ expiredSessions[k] # NoRecord) =>
               ~r.ok /\ r.reason = "transient-expired"
        /\ (/\ registryStore[k] = NoRecord
            /\ k \notin SessionKeys
            /\ expiredSessions[k] = NoRecord) =>
               ~r.ok /\ r.reason = "unknown-key"

\* A key that has both a registry record and a tombstone, and a lookup that
\* answered for it from the registry.
C12_Witness ==
    /\ Returned(res[1], "getStorageType")
    /\ res[1].key \in Keys
    /\ registryStore[res[1].key] # NoRecord
    /\ expiredSessions[res[1].key] # NoRecord
    /\ res[1].ok
    /\ res[1].storageType = registryStore[res[1].key].storageType

\* The elements of a sequence of keys.
Listed(keys) == {keys[n] : n \in 1..Len(keys)}

\* C13: listKeys() returns every registry key in the registry's order,
\* followed by the keys of the live sessions that are not registry keys, in
\* the sessions' order, each key once; a key that resolves as expired is not
\* listed; listKeys({includeTransient: false}) returns exactly the registry
\* keys.
C13_ListKeysMergesRegistryAndSessions ==
    LET registryKeys == {k \in Keys : registryStore[k] # NoRecord}
        all == listKeysResult(TRUE)
        head == SubSeq(all, 1, Len(registryListKeys))
        rest == SubSeq(all, Len(registryListKeys) + 1, Len(all))
    IN
    /\ listKeysResult(FALSE) = registryListKeys
    /\ Listed(registryListKeys) = registryKeys
    /\ \A i, j \in 1..Len(registryListKeys) :
           i < j => registryListKeys[i] # registryListKeys[j]
    /\ Len(all) >= Len(registryListKeys)
    /\ head = registryListKeys
    /\ rest = SelectSeq(transientListKeys, LAMBDA k : k \notin registryKeys)
    /\ \A i, j \in 1..Len(all) : i < j => all[i] # all[j]
    /\ Listed(all) = registryKeys \cup SessionKeys
    /\ \A k \in Keys :
           resolveStorageLookup(k).reason = "transient-expired" =>
               k \notin Listed(all)

\* listKeys() answered two keys while one key had both a registry record
\* and a live session: that key is listed once, the registry's key first.
C13_Witness ==
    /\ Returned(res[1], "listKeys")
    /\ res[1].includeTransient
    /\ Len(res[1].keys) = 2
    /\ registryStore[res[1].keys[1]] # NoRecord
    /\ res[1].keys[1] \in SessionKeys
    /\ res[1].keys[2] \in SessionKeys
    /\ registryStore[res[1].keys[2]] = NoRecord
    /\ res[1].keys = listKeysResult(TRUE)

\* The state of a key as the dispatcher resolves it: the registry first,
\* then the live sessions, then the tombstones.
KeyState(k) ==
    IF registryStore[k] # NoRecord THEN "native-persisted"
    ELSE IF k \in SessionKeys THEN "transient-active"
    ELSE IF expiredSessions[k] # NoRecord THEN "transient-expired"
    ELSE "unregistered"

ClaimedTransitions ==
    { <<"unregistered", "native-persisted">>,
      <<"unregistered", "transient-active">>,
      <<"native-persisted", "unregistered">>,
      <<"transient-active", "transient-expired">>,
      <<"transient-expired", "unregistered">> }

AddedSession(k) ==
    /\ pc[1] = "idle"
    /\ res'[1].op \in {"add", "persistEntries"}
    /\ ~Raised(res'[1])
    /\ res'[1].ok
    /\ res'[1].key = k
    /\ res'[1].storageType = TRANSIENT_STORAGE_TYPE
RemovedTransient(k) ==
    /\ pc[1] = "idle"
    /\ res'[1].op \in {"remove", "transientRemove"}
    /\ ~Raised(res'[1])
    /\ res'[1].ok
    /\ res'[1].key = k

TransientStep ==
    \/ transientVars' # transientVars
    \/ /\ pc[1] = "idle" /\ pc'[1] = "idle"
       /\ res'[1].op \in {"persistEntries", "add", "expireSession", "expireAll",
                          "remove", "transientRemove"}

C16_RemoveNativeThenRegistry ==
    [][/\ pc[1] \in {"rm_native", "rm_registry"} =>
              \A k \in Keys \ {call[1].key} :
                  /\ nativeStore'[k] = nativeStore[k]
                  /\ registryStore'[k] = registryStore[k]
       /\ pc[1] = "rm_native" => registryStore' = registryStore
       /\ pc[1] = "rm_registry" =>
              /\ nativeStore' = nativeStore
              /\ nativeStore[call[1].key] = NoRecord
              /\ call[1].log = <<"delete-native">>
       /\ (/\ pc[1] \in {"rm_native", "rm_registry"}
           /\ nativeStore[call[1].key] = NoRecord
           /\ registryStore[call[1].key] = NoRecord) => UNCHANGED storeVars
       /\ (pc[1] = "rm_registry" /\ pc'[1] = "idle" /\ ~Raised(res'[1])) =>
              /\ res'[1].ok
              /\ res'[1].key = call[1].key
              /\ res'[1].log = <<"delete-native", "delete-registry">>
              /\ nativeStore'[call[1].key] = NoRecord
              /\ registryStore'[call[1].key] = NoRecord
      ]_vars

\* remove(key) returned ok for a key that had been persisted: the key is
\* gone from both partitions and the other key still has both its records.
C16_Witness ==
    /\ Returned(res[1], "nativeRemove")
    /\ res[1].ok
    /\ res[1].log = <<"delete-native", "delete-registry">>
    /\ nativeStore[res[1].key] = NoRecord
    /\ registryStore[res[1].key] = NoRecord
    /\ \E k \in Keys \ {res[1].key} :
           nativeStore[k] # NoRecord /\ registryStore[k] # NoRecord

\* What an iteration of the opener of component c met, read from the step.
OpenerStepped(c) == opener'[c].attempt = opener[c].attempt + 1
MetVersionError(c) ==
    /\ OpenerStepped(c)
    /\ "error" \notin DOMAIN opener'[c] \/ opener'[c].error # "open-error"
    /\ opener[c].currentVersion # NoVersion
    /\ opener[c].currentVersion < dbVersion
MetBlocked(c) ==
    /\ OpenerStepped(c)
    /\ Len(upgradeQueue') > Len(upgradeQueue)
MetOtherError(c) ==
    /\ OpenerStepped(c)
    /\ "error" \in DOMAIN opener'[c]
    /\ opener'[c].error = "open-error"

Max(a, b) == IF a >= b THEN a ELSE b

\* An iteration of the opener of component c got a connection that lacks
\* the component's partition.
LackedStore(c) == OpenerStepped(c) /\ openedDb'[c] # NoRecord

\* C18: when an open succeeds with a connection that lacks the component's
\* partition, the connector closes that connection before it opens again,
\* and the next open asks for max(version attempted, version the store
\* reported) + 1, which is above the store's version, so that it runs the
\* upgrade; every upgrade keeps the partitions there are and creates the
\* requested partition and the default registry and nativeHandles
\* partitions.
C18_StaleClosedThenHigherVersion ==
    /\ [](\A c \in Components :
            openedDb[c] # NoRecord =>
                /\ ~openedDb[c].open
                /\ StoreNameOf(c) \notin openedDb[c].stores)
    /\ [][\A c \in Components :
            /\ LackedStore(c) =>
                   /\ openedDb'[c].version = dbVersion'
                   /\ openedDb'[c].stores = dbStores'
                   /\ opener'[c].currentVersion =
                          Max(opener[c].currentVersion, dbVersion') + 1
                   /\ opener'[c].currentVersion > dbVersion'
            /\ (/\ OpenerStepped(c)
                /\ openedDb[c] # NoRecord
                /\ connSeq' # connSeq
                /\ opener[c].currentVersion > dbVersion) =>
                   /\ dbVersion' = opener[c].currentVersion
                   /\ dbPromise'[c] = "fulfilled"
                   /\ StoreNameOf(c) \in conn'[c].stores
            /\ dbVersion' > dbVersion =>
                   /\ dbStores \subseteq dbStores'
                   /\ STORE_DEFINITIONS \subseteq dbStores'
            /\ (dbVersion' > dbVersion /\ OpenerStepped(c)) =>
                   StoreNameOf(c) \in dbStores'
       ]_vars

\* The native backend opened version 1 of a database without its partition:
\* that connection is closed and the open goes on with version 2.
C18_Witness ==
    /\ dbPromise["native"] = "pending"
    /\ openedDb["native"] # NoRecord
    /\ ~openedDb["native"].open
    /\ openedDb["native"].version = 1
    /\ DEFAULT_NATIVE_HANDLE_STORE_NAME \notin dbStores
    /\ opener["native"].currentVersion = 2

\* The open of component c is waiting to ask for a version above the store's.
AheadOfStore(c) ==
    /\ dbPromise[c] = "pending"
    /\ opener[c].currentVersion # NoVersion
    /\ opener[c].currentVersion > dbVersion

\* An iteration of the opener of component c asked for an upgrade: the
\* upgrade ran in the step, or it was queued behind a connection that
\* stayed open.
AskedUpgrade(c) == OpenerStepped(c) /\ (dbVersion' > dbVersion \/ MetBlocked(c))

C20_RetryOnMissingPartition ==
    /\ [](\A t \in Tasks :
            call[t].op = "withStore" =>
                call[t].retryCount + 1 <= MAX_DB_MIGRATION_ATTEMPTS)
    /\ [][\A t \in Tasks :
            (pc[t] = "ws_transaction" /\ <<pc, call, res>>' # <<pc, call, res>>
             /\ (pc'[t] # pc[t] \/ call'[t] # call[t])) =>
                LET c == call[t].comp
                    missing == /\ dbPromise[c] = "fulfilled"
                               /\ conn[c].open
                               /\ StoreNameOf(c) \notin conn[c].stores
                    budgetLeft == call[t].retryCount + 1 < MAX_DB_MIGRATION_ATTEMPTS
                IN
                IF missing /\ budgetLeft
                THEN /\ pc'[t] = "ws_transaction"
                     /\ call'[t].retryCount = call[t].retryCount + 1
                     /\ call'[t].closed = Append(call[t].closed, conn[c].id)
                     /\ conn'[c].id = conn[c].id /\ ~conn'[c].open
                     /\ dbPromise'[c] = "pending"
                     /\ openCalls'[c] = openCalls[c] + 1
                ELSE /\ pc'[t] = "idle"
                     /\ UNCHANGED <<dbPromise, conn, openCalls>>
                     /\ missing =>
                            /\ Raised(res'[t])
                            /\ res'[t].error = "NotFoundError"
                            /\ res'[t].retryCount + 1 = MAX_DB_MIGRATION_ATTEMPTS
                     /\ (dbPromise[c] = "fulfilled" /\ ~conn[c].open) =>
                            /\ Raised(res'[t])
                            /\ res'[t].error = "InvalidStateError"
       ]_vars

\* An operation whose three connections all lacked the partition: it closed
\* the first two and raised NotFoundError on the third.
C20_Witness ==
    \E t \in Tasks :
        /\ res[t].op = "withStore"
        /\ Raised(res[t])
        /\ res[t].error = "NotFoundError"
        /\ Len(res[t].closed) = 2
        /\ res[t].closed[1] # res[t].closed[2]

\* The dispatcher's operations other than add.
DispatcherReads ==
    {"listKeys", "getStorageType", "exists", "getFileCount", "remove",
     "requestPermissions"}

\* C21: no call of listKeys, getStorageType, exists, getFileCount, remove or
\* requestPermissions is raised to the caller; whatever fails, the store
\* being unavailable included, comes back as a result.
C21_DispatcherNeverRaises ==
    \A t \in Tasks : res[t].op \in DispatcherReads => ~Raised(res[t])

\* A call of persistHandles or persistEntries with an input that fails the
\* validation ended in this step.
InvalidInputEnded ==
    /\ res'[1] # res[1]
    /\ LET input == res'[1].input IN
       \/ /\ res'[1].op = "persistHandles"
          /\ \/ input = <<>>
             \/ \E n \in 1..Len(input) : ~isFileSystemHandle(input[n])
       \/ /\ res'[1].op = "persistEntries"
          /\ \/ input = <<>>
             \/ \E n \in 1..Len(input) : ~isTransientEntry(input[n])

C23_AddNeverRaises ==
    \A t \in Tasks :
        res[t].op = "add" =>
            /\ ~Raised(res[t])
            /\ res[t].input = <<>> <=> (~res[t].ok /\ res[t].reason = "no-selection")
            /\ (~res[t].ok /\ res[t].input # <<>>) =>
                   /\ res[t].reason = "storage-failure"
                   /\ res[t].error \in {"invalid-entries", "traversal-error",
                                        "native-put-failed", "registration-failed"}
                   /\ res[t].error = "invalid-entries" <=>
                          (/\ ~isPureNativeSelection(res[t].input)
                           /\ \E n \in 1..Len(res[t].input) :
                                  ~isTransientEntry(res[t].input[n]))
                   /\ res[t].error = "native-put-failed" <=>
                          res[t].log = <<"put-native-failed">>
                   /\ res[t].error = "registration-failed" =>
                          /\ Len(res[t].log) >= 2
                          /\ res[t].log[1] = "put-native"
                          /\ res[t].log[2] = "register-failed"
                   /\ res[t].error = "traversal-error" => res[t].log = <<>>

\* add returned storage-failure after the registration failed.
C23_Witness ==
    /\ res[1].op = "add"
    /\ ~res[1].ok
    /\ res[1].reason = "storage-failure"
    /\ res[1].error = "registration-failed"

\* C24: a persistHandles whose registration failed rejects with the
\* registration error, whether the compensating delete went through or
\* failed too; the cleanup's own error never reaches the caller.
C24_CleanupFailureSwallowed ==
    \A t \in Tasks :
        (/\ res[t].op = "persistHandles"
         /\ Len(res[t].log) >= 2
         /\ res[t].log[2] = "register-failed") =>
            /\ Raised(res[t])
            /\ res[t].error = "registration-failed"
            /\ Len(res[t].log) = 3
            /\ res[t].log[3] \in {"delete-native", "delete-native-failed"}

\* persistHandles rejected with the registration error after the
\* compensating delete had failed as well.
C24_Witness ==
    /\ res[1].op = "persistHandles"
    /\ Raised(res[1])
    /\ res[1].error = "registration-failed"
    /\ res[1].log = <<"put-native", "register-failed", "delete-native-failed">>

\* The dispatcher's remove(k) returned in this step, having found k in the
\* given state.
RemoveReturned(k, state) ==
    /\ pc[1] = "idle" /\ pc'[1] = "idle"
    /\ res'[1] # res[1]
    /\ res'[1].op = "remove"
    /\ res'[1].key = k
    /\ ~Raised(res'[1])
    /\ KeyState(k) = state

\* C25: the dispatcher's remove of a key that has expired returns ok with
\* reason 'transient-expired' and drops the key's tombstone, leaving
\* everything else as it was, so that the key is unregistered afterwards;
\* remove of an unregistered key returns a result that is not ok with reason
\* 'unknown-key' and changes nothing.
C25_RemoveExpiredThenNotFound ==
    [][\A k \in Keys :
          /\ RemoveReturned(k, "transient-expired") =>
                 /\ res'[1].ok
                 /\ res'[1].reason = "transient-expired"
                 /\ expiredSessions' = [expiredSessions EXCEPT ![k] = NoRecord]
                 /\ KeyState(k)' = "unregistered"
                 /\ UNCHANGED <<sessions, storeVars>>
          /\ RemoveReturned(k, "unregistered") =>
                 /\ ~res'[1].ok
                 /\ res'[1].reason = "unknown-key"
                 /\ UNCHANGED <<sessions, expiredSessions, storeVars>>
      ]_vars

\* remove returned ok for an expired key: its tombstone is gone, the other
\* key's tombstone is still there.
C25_Witness ==
    /\ Returned(res[1], "remove")
    /\ res[1].ok
    /\ "reason" \in DOMAIN res[1]
    /\ res[1].reason = "transient-expired"
    /\ res[1].key \in Keys
    /\ KeyState(res[1].key) = "unregistered"
    /\ \E k \in Keys : KeyState(k) = "transient-expired"

\* What the caller got from getSession or getEntries, or passed to
\* persistEntries.
CopiesAndInputs ==
    {h.ref : h \in {g \in mem.held : g.from \in {"getSession", "getEntries", "input"}}}

\* C26: no array or object that getSession or getEntries answered with, and
\* no array the caller passed to persistEntries, is one a stored session
\* consists of; so when the caller pushes to, removes from or reassigns in
\* one of them, what getSession, getEntries and getFileCount observe for
\* every key stays as it was.
C26_CopiesAreDefensive ==
    /\ [](CopiesAndInputs \cap OwnedRefs = {})
    /\ [][\A r \in CopiesAndInputs :
            (/\ mem'.heap[r] # mem.heap[r]
             /\ mem'.owned = mem.owned
             /\ mem'.held = mem.held) =>
                \A k \in Keys : Observed(k)' = Observed(k)
       ]_vars

\* The caller has emptied the entries array getSession answered with, and
\* the stored session still has its entry.
C26_Witness ==
    \E h \in mem.held : \E k \in Keys :
        /\ h.from = "getSession"
        /\ mem.heap[h.ref] = ArrayOf(<<"e1">>)
        /\ mem.owned[k] # NoRecord
        /\ Observed(k).entries = <<"x1", "e1">>

\* C27: the beforeunload listener is attached by the first persistEntries
\* that stores a session and never before, and addEventListener is called at
\* most once however many sessions are stored; when beforeunload fires, every
\* session active at that moment has a tombstone with status 'expired' and
\* reason 'page-unload', and no session is active.
C27_LazyListenerSweepsAll ==
    /\ [](listenerCalls <= 1)
    /\ [](unloadListenerAttached <=> listenerCalls = 1)
    /\ []((sessions # <<>>) => unloadListenerAttached)
    /\ [][listenerCalls' # listenerCalls =>
            /\ listenerCalls = 0
            /\ \E k \in Keys : AddedSession(k) /\ k \in SessionKeys'
       ]_vars
    /\ [][BeforeUnload =>
            /\ sessions' = <<>>
            /\ \A k \in SessionKeys :
                   /\ expiredSessions'[k] # NoRecord
                   /\ expiredSessions'[k].status = "expired"
                   /\ expiredSessions'[k].reason = "page-unload"
       ]_vars

\* Two sessions were stored through one listener, and beforeunload has swept
\* both.
C27_Witness ==
    /\ listenerCalls = 1
    /\ sessions = <<>>
    /\ \A k \in Keys :
           /\ expiredSessions[k] # NoRecord
           /\ expiredSessions[k].reason = "page-unload"

\* How many times a walk of every path below the entries comes to the item.
RECURSIVE TimesReached(_, _, _)
TimesReached(entries, item, tr) ==
    IF entries = <<>> THEN 0
    ELSE LET e == Head(entries) IN
         (IF e = item THEN 1 ELSE 0)
         + (IF e \in Directories THEN TimesReached(tr[e], item, tr) ELSE 0)
         + TimesReached(Tail(entries), item, tr)

\* The selection and what lies below it form a tree: no directory handle is
\* come to twice.
IsTree(handles, tr) == \A d \in Directories : TimesReached(handles, d, tr) <= 1

\* The step in which add traverses a native selection.
Traversed ==
    /\ pc[1] = "idle"
    /\ pc'[1] = "ph_put"

\* C28: when add traverses native handles that form a tree, the counts it
\* derives are: handles, the number of top-level handles; files, the number
\* of file handles at any depth; directories, the number of directory
\* handles at any depth, the top-level ones included; and these are the
\* counts the add returns.
C28_CountsOverTree ==
    /\ [][(Traversed /\ IsTree(call'[1].input, tree)) =>
             call'[1].summary =
                 [files |-> CountUnder(call'[1].input, "file", tree),
                  directories |-> CountUnder(call'[1].input, "directory", tree),
                  handles |-> Len(call'[1].input)]
       ]_vars
    /\ [][(pc[1] = "ph_register" /\ pc'[1] = "idle" /\ res'[1].ok) =>
             /\ res'[1].counts = call[1].summary
             /\ res'[1].input = call[1].input
       ]_vars

\* add returned the counts of one directory with three files and a
\* subdirectory holding two.
C28_Witness ==
    /\ Returned(res[1], "add")
    /\ res[1].ok
    /\ res[1].input = <<"d1">>
    /\ res[1].counts = [files |-> 5, directories |-> 2, handles |-> 1]

\* How many iterators the traversal has made for a directory handle.
TimesIterated(d) ==
    Cardinality({n \in 1..Len(walk.iterated) : walk.iterated[n] = d})

\* C29: a count traversal ends, by returning or by an iterator's exception,
\* whatever the directory graph (a directory yielding itself, two yielding
\* each other, one yielded or listed twice, contents changing meanwhile), and
\* makes an iterator for each directory handle at most once; while the
\* directory contents stay as they were, what it returns is what
\* summarizeHandles resolves to.
C29_TraversalTerminates ==
    /\ (walk.status = "walking") ~> (walk.status \in {"done", "failed"})
    /\ [](walk.status # "idle" =>
             /\ \A d \in Directories : TimesIterated(d) <= 1
             /\ Len(walk.stack) <= Cardinality(Directories))
    /\ []((walk.status = "done" /\ walk.stable) =>
             walk.summary = summarizeHandles(walk.handles, walk.at))
    /\ []((walk.status = "failed" /\ walk.stable) =>
             summarizeHandlesThrows(walk.handles, walk.at))

\* A traversal over two directories that yield each other has ended, each
\* iterated once.
C29_Witness ==
    /\ walk.status = "done"
    /\ walk.stable
    /\ walk.at = [d1 |-> <<"f1", "d2">>, d2 |-> <<"d1", "f2">>]
    /\ walk.handles = <<"d1">>
    /\ walk.iterated = <<"d1", "d2">>

\* The file handles among the entries.
FilesAmong(entries) ==
    Cardinality({n \in 1..Len(entries) :
        entries[n] # IteratorThrows /\ ItemKind(entries[n]) = "file"})

RECURSIVE SumFilesIn(_, _)
SumFilesIn(dirs, tr) ==
    IF dirs = {} THEN 0
    ELSE LET d == CHOOSE x \in dirs : TRUE
         IN FilesAmong(tr[d]) + SumFilesIn(dirs \ {d}, tr)

\* C30: in a traversal that has returned, every directory handle met, however
\* often it was listed or yielded, counts once in directories, and the files
\* directly under each count once in files.
C30_NeverDoubleCounts ==
    (walk.status = "done" /\ walk.stable) =>
        /\ walk.summary.directories = Cardinality(walk.seen)
        /\ walk.summary.files =
               FilesAmong(walk.handles) + SumFilesIn(walk.seen, walk.at)

\* Both callers are between calls, the persistHandles and the remove on the
\* same key having completed.
BothCompleted(k) ==
    /\ pc[1] = "idle"
    /\ pc[2] = "idle"
    /\ Returned(res[1], "persistHandles")
    /\ res[1].ok
    /\ res[1].key = k
    /\ Returned(res[2], "nativeRemove")
    /\ res[2].ok
    /\ res[2].key = k

\* C31, as stated: once a persistHandles and a remove on the same key have
\* both completed, the registry holds the key if and only if the native
\* store holds a record for it.
C31_RegistryIffNative ==
    \A k \in Keys :
        BothCompleted(k) => (registryStore[k] # NoRecord <=> nativeStore[k] # NoRecord)

\* C31, amended: the four store steps are not serialized, and each store
\* keeps what the last step on it wrote: a write of the native record stores
\* the call's record and a delete empties the slot whatever the other call
\* is doing, likewise registration and the delete of the registry pointer,
\* and no step changes the store of another step.  The two stores need not
\* agree once both calls have completed.
C31_LastWriteWinsPerStore ==
    /\ [][\A t \in Tasks :
            /\ (pc[t] = "ph_put" /\ pc'[t] = "ph_register") =>
                   /\ nativeStore' = [nativeStore EXCEPT ![call[t].key] = call[t].record]
                   /\ registryStore' = registryStore
            /\ (pc[t] = "ph_register" /\ pc'[t] = "idle") =>
                   /\ registryStore'[call[t].key] # NoRecord
                   /\ registryStore'[call[t].key].storageType = NATIVE_HANDLE_STORAGE_TYPE
                   /\ \A k \in Keys \ {call[t].key} : registryStore'[k] = registryStore[k]
                   /\ nativeStore' = nativeStore
            /\ (pc[t] = "rm_native" /\ pc'[t] = "rm_registry") =>
                   /\ nativeStore' = [nativeStore EXCEPT ![call[t].key] = NoRecord]
                   /\ registryStore' = registryStore
            /\ (pc[t] = "rm_registry" /\ pc'[t] = "idle") =>
                   /\ registryStore' = [registryStore EXCEPT ![call[t].key] = NoRecord]
                   /\ nativeStore' = nativeStore
       ]_vars
    /\ [][(\A t \in Tasks : pc'[t] = pc[t] \/ pc[t] = "idle") =>
              /\ nativeStore' = nativeStore
              /\ registryStore' = registryStore
       ]_vars

\* Both calls on k1 have completed with the steps in the order write native,
\* delete native, delete pointer, register: the registry holds a pointer to
\* a record the native store does not have.
C31_Witness ==
    /\ BothCompleted("k1")
    /\ registryStore["k1"] # NoRecord
    /\ nativeStore["k1"] = NoRecord

BothFinished == \A n \in TabNames : tabs.tab[n].status = "finished"

\* C32: when both tabs have finished their handshake, the second having
\* started while the first was listening and every queued message having
\* been handed over, they hold different
\* tabIds, exactly one of them has regenerated its tabId, that one is the
\* loser of the comparison of 'tabId:nonce', and both hold the same
\* browserId.
C32_DuplicateTabsSettle ==
    (BothFinished /\ tabs.overlapped /\ ~tabs.dropped) =>
        LET a == tabs.tab["a"]
            b == tabs.tab["b"]
        IN /\ a.currentTabId # b.currentTabId
           /\ a.didRegenerateTabId # b.didRegenerateTabId
           /\ a.didRegenerateTabId <=> iWin(b.nonce, a.nonce)
           /\ a.browserId = b.browserId

\* The step is a getFileCount(k) that returned or raised.
CountedFiles(k) ==
    /\ pc[1] = "idle"
    /\ res'[1] # res[1]
    /\ res'[1].op = "getFileCount"
    /\ res'[1].key = k

\* C33: a getFileCount on a native key whose stored handles cannot be
\* traversed to the end, a directory iterator failing on the way, does not
\* raise for that: with the store readable it returns a result that is not
\* ok, with reason 'traversal-error' and the iterator's error, and without
\* counts; the native record with its stored counts and the registry record
\* stay as they were.
C33_TraversalErrorReturned ==
    [][\A k \in Keys :
          (/\ CountedFiles(k)
           /\ registryStore[k] # NoRecord
           /\ registryStore[k].storageType = NATIVE_HANDLE_STORAGE_TYPE
           /\ nativeStore[k] # NoRecord
           /\ summarizeHandlesThrows(nativeStore[k].handles, tree)) =>
              /\ Raised(res'[1]) => res'[1].error = "store-unavailable"
              /\ ~Raised(res'[1]) =>
                     /\ ~res'[1].ok
                     /\ res'[1].reason = "traversal-error"
                     /\ res'[1].error = IteratorError
                     /\ "counts" \notin DOMAIN res'[1]
              /\ nativeStore' = nativeStore
              /\ registryStore' = registryStore
    ]_vars

\* getFileCount has answered traversal-error for a stored directory whose
\* subdirectory stopped iterating after the add.
C33_Witness ==
    /\ Returned(res[1], "getFileCount")
    /\ ~res[1].ok
    /\ res[1].reason = "traversal-error"
    /\ res[1].error = IteratorError
    /\ nativeStore[res[1].key] # NoRecord
    /\ nativeStore[res[1].key].fileCount = 2
    /\ registryStore[res[1].key] # NoRecord

\* C34: getFileCount writes nothing and remembers nothing: a call on a
\* native key that returns counts returns those of a traversal of the stored
\* handles over the directories as they are at that call, with partial true
\* exactly when that traversal finds fewer files or fewer directories than
\* the record's fileCount and directoryCount, which no getFileCount changes;
\* so it answers partial while entries are missing and not partial once
\* they are back.
C34_GetFileCountNeverCaches ==
    [][\A k \in Keys :
          CountedFiles(k) =>
              /\ nativeStore' = nativeStore
              /\ registryStore' = registryStore
              /\ sessions' = sessions
              /\ expiredSessions' = expiredSessions
              /\ (/\ ~Raised(res'[1])
                  /\ res'[1].ok
                  /\ res'[1].storageType = NATIVE_HANDLE_STORAGE_TYPE) =>
                     LET stored == nativeStore[k]
                         fresh == Recount(stored.handles, tree)
                     IN /\ res'[1].counts = fresh
                        /\ res'[1].partial <=>
                               \/ fresh.files < stored.fileCount
                               \/ fresh.directories < stored.directoryCount
    ]_vars

\* getFileCount answered partial against the recorded counts while a file
\* was missing; the file is back, the record is as it was, and a call now
\* answers not partial.
C34_Witness ==
    /\ Returned(res[1], "getFileCount")
    /\ res[1].ok
    /\ res[1].partial
    /\ res[1].key \in Keys
    /\ nativeStore[res[1].key] # NoRecord
    /\ res[1].counts.files < nativeStore[res[1].key].fileCount
    /\ Recount(nativeStore[res[1].key].handles, tree).files
           = nativeStore[res[1].key].fileCount
    /\ getFileCountResult(res[1].key).ok
    /\ ~getFileCountResult(res[1].key).partial

\* The step is a call of op on k that was answered at once.
Answered(op, k) ==
    /\ pc[1] = "idle"
    /\ pc'[1] = "idle"
    /\ res'[1] # res[1]
    /\ res'[1].op = op
    /\ res'[1].key = k

\* The key resolves to a live transient session.
ResolvesTransient(k) == registryStore[k] = NoRecord /\ k \in SessionKeys

\* The key resolves to a registry record of a storage type no backend serves.
ResolvesUnsupported(k) ==
    /\ registryStore[k] # NoRecord
    /\ registryStore[k].storageType
           \notin {NATIVE_HANDLE_STORAGE_TYPE, TRANSIENT_STORAGE_TYPE}

\* C35: requestPermissions on a key that resolves to a live transient
\* session returns not ok with reason 'unsupported-storage'; exists,
\* getFileCount and remove on a key whose registry record has a storage type
\* that is neither 'native-handle' nor 'transient-session' return not ok
\* with reason 'unsupported-storage'; each of these calls leaves the registry
\* record, the native store and the transient maps as they were.
C35_UnsupportedStorageNoEffect ==
    [][\A k \in Keys :
          /\ (Answered("requestPermissions", k) /\ ResolvesTransient(k)) =>
                 /\ ~Raised(res'[1])
                 /\ ~res'[1].ok
                 /\ res'[1].reason = "unsupported-storage"
                 /\ res'[1].storageType = TRANSIENT_STORAGE_TYPE
                 /\ storeVars' = storeVars
                 /\ transientVars' = transientVars
          /\ \A op \in {"exists", "getFileCount", "remove"} :
                 (Answered(op, k) /\ ResolvesUnsupported(k)) =>
                     /\ ~Raised(res'[1])
                     /\ ~res'[1].ok
                     /\ res'[1].reason = "unsupported-storage"
                     /\ op = "exists" => ~res'[1].exists
                     /\ storeVars' = storeVars
                     /\ transientVars' = transientVars
    ]_vars

\* remove was refused for a key registered without a storage type, and the
\* registry record is still there.
C35_Witness ==
    /\ Returned(res[1], "remove")
    /\ ~res[1].ok
    /\ res[1].reason = "unsupported-storage"
    /\ registryStore[res[1].key] # NoRecord
    /\ registryStore[res[1].key].storageType = DEFAULT_STORAGE_TYPE

\* The registry says the key is 'native-handle' and the native store has no
\* record for it.
Dangling(k) ==
    /\ registryStore[k] # NoRecord
    /\ registryStore[k].storageType = NATIVE_HANDLE_STORAGE_TYPE
    /\ nativeStore[k] = NoRecord

\* C36: for a key with a dangling registry pointer, exists returns exists
\* false with reason 'unknown-key', and getFileCount and requestPermissions
\* return not ok with reason 'unknown-key'; none of them changes a store.
C36_DanglingPointerIsAbsent ==
    [][\A k \in Keys :
          /\ (Answered("exists", k) /\ Dangling(k)) =>
                 /\ ~Raised(res'[1])
                 /\ res'[1].ok
                 /\ ~res'[1].exists
                 /\ res'[1].reason = "unknown-key"
                 /\ storeVars' = storeVars
          /\ \A op \in {"getFileCount", "requestPermissions"} :
                 (Answered(op, k) /\ Dangling(k)) =>
                     /\ ~Raised(res'[1])
                     /\ ~res'[1].ok
                     /\ res'[1].reason = "unknown-key"
                     /\ "counts" \notin DOMAIN res'[1]
                     /\ storeVars' = storeVars
    ]_vars

\* A remove deleted the native record and failed to delete the pointer;
\* exists has answered for the key since.
C36_Witness ==
    /\ Returned(res[1], "exists")
    /\ ~res[1].exists
    /\ res[1].reason = "unknown-key"
    /\ Dangling(res[1].key)

\* C37: in the transient backend no key is at once in the session map and in
\* the tombstone map; getStatus(key) is 'active' exactly for the keys in the
\* session map, 'expired' exactly for the keys only in the tombstone map and
\* 'missing' for every other key; and storing a session under an expired key
\* makes the key active and drops its tombstone.
C37_StatusFollowsMaps ==
    /\ [](\A k \in Keys :
             /\ ~(k \in SessionKeys /\ expiredSessions[k] # NoRecord)
             /\ getStatus(k).status = "active" <=> k \in SessionKeys
             /\ getStatus(k).status = "expired" <=>
                    (k \notin SessionKeys /\ expiredSessions[k] # NoRecord)
             /\ getStatus(k).status = "missing" <=>
                    (k \notin SessionKeys /\ expiredSessions[k] = NoRecord))
    /\ [][\A k \in Keys :
            (AddedSession(k) /\ expiredSessions[k] # NoRecord) =>
                /\ k \in SessionKeys'
                /\ expiredSessions'[k] = NoRecord
       ]_vars

\* A key that expired at page unload was added again and is active, while
\* the other key is still expired.
C37_Witness ==
    /\ Returned(res[1], "add")
    /\ res[1].ok
    /\ res[1].key = "k1"
    /\ getStatus("k1").status = "active"
    /\ expiredSessions["k1"] = NoRecord
    /\ getStatus("k2").status = "expired"
    /\ expiredSessions["k2"].reason = "page-unload"

\* C38: after a persistHandles that failed at the registration and whose
\* compensating delete went through, the native record and the registry
\* entry under the key are the ones from before the call.
C38_FailedPersistRestores ==
    \A t \in Tasks :
        (/\ res[t].op = "persistHandles"
         /\ Raised(res[t])
         /\ res[t].log = <<"put-native", "register-failed", "delete-native">>) =>
            /\ nativeStore[res[t].key] = res[t].before.native
            /\ registryStore[res[t].key] = res[t].before.registry

\* C39: a store operation of the registry that finds its connection cached
\* completes, also after an upgrade made for the native backend has closed
\* that connection.
C39_RegistrySurvivesSiblingUpgrade ==
    \A t \in Tasks :
        (/\ res[t].op = "storeOp"
         /\ res[t].comp = "registry"
         /\ res[t].found = "fulfilled") =>
            ~Raised(res[t])

\* What a caller can observe of key k: exists(k) answers exists false,
\* getStorageType(k) answers a result that is not ok, and listKeys() does
\* not contain k.
GoneForCaller(k) ==
    /\ ~existsResult(k, FALSE, NoProbes).exists
    /\ ~getStorageTypeResult(k).ok
    /\ k \notin Listed(listKeysResult(TRUE))

\* C40: once the dispatcher's remove(key) has returned ok, the key is gone
\* for the caller: exists(key) answers exists false, getStorageType(key) a
\* not-found result, and listKeys() does not contain the key.
C40_RemovedKeyIsGone ==
    (/\ pc[1] = "idle"
     /\ res[1].op = "remove"
     /\ ~Raised(res[1])
     /\ res[1].ok) =>
        GoneForCaller(res[1].key)

====
